---- MODULE Spec2Model ----
(***************************************************************************)
(* A model of the hocr_editor Forest (src/tree.rs, Tree<D>): an ordered    *)
(* multiway tree kept as a map from identities to nodes, a root list and   *)
(* a next-identity counter.  Every method of Tree is an operator on a tree *)
(* value [nodes, roots, curr_id]; the actions apply the public methods to  *)
(* the current tree with arguments drawn from small sets.                  *)
(*                                                                         *)
(* Conventions.  Option<InternalID> is an integer, None being NoId.        *)
(* Vec indices are 1-based here (Rust's are 0-based); Position returns     *)
(* NoIndex where Rust's Iterator::position returns None.  A failed         *)
(* `expect` is a "Panic" result carrying the message of the expectation.   *)
(***************************************************************************)
EXTENDS Integers, Sequences, FiniteSets, TLC

\* Bound on the identity counter: creating operations are enabled while
\* curr_id < MaxId, so identities range over 0 .. MaxId - 1.
MaxId == 5

\* Largest number of clauses of an attribute text.
MaxClauses == 3

\* Largest number of elements of a document.
MaxElts == 2

\* Identities callers may pass: every identity that can exist, present or not.
Ids == 0 .. (MaxId - 1)

\* None of Option<InternalID>.
NoId == -1

\* None of Option<usize> as returned by Iterator::position.
NoIndex == 0

\* Node values (the type parameter D).  Tree<D> puts no bound on D: it stores
\* and drops values and never reads, compares or copies one, so its behaviour
\* on any values is its behaviour on pairwise distinct ones, renamed.  The
\* callers here pass the k-th value to the creating call made at curr_id = k.
Values == {<<"v", k>> : k \in Ids}

\* The value argument of a call that takes none.
NoValue == <<>>

Positions == {"Before", "After"}

VARIABLES
    nodes,      \* Tree.nodes: identity -> Node
    roots,      \* Tree.roots: sequence of identities
    curr_id,    \* Tree.curr_id: the next identity to hand out
    panic,      \* "" while running, else the message of the failed expect
    last,       \* the call that has just returned (operation, arguments and
                \* result), NoCall when the caller is between calls
    pre,        \* the tree that call started from
    issued      \* identities returned by creating operations, in call order

\* One call of OCRProperty::parse_properties, taken clause by clause.
VARIABLES
    pp_pc,          \* "loop" at the head of the for loop, "body" at the end
                    \* of a pass, "done" after the return, "panicked" after
                    \* an index out of bounds
    pp_dict,        \* the local property_dict
    pp_n,           \* number of clauses the loop has taken
    pp_pattern,     \* the clause (pattern) of the last pass of the loop
    pp_before,      \* pp_dict before that pass
    pp_result,      \* the value returned, None before the return
    pp_wellformed,  \* keys of the well-formed clauses taken so far
    pp_malformed,   \* a clause with an unreadable value token has been taken
    pp_produced     \* keys for which a pass has produced a property

treeVars == <<nodes, roots, curr_id, panic, last, pre, issued>>

parseVars == <<pp_pc, pp_dict, pp_n, pp_pattern, pp_before, pp_result,
               pp_wellformed, pp_malformed, pp_produced>>

\* One import of a document, its export and the import of what was exported.
VARIABLES
    im_pc,              \* "idle" before a file is opened; "parsed": the
                        \* document is there; "imported",
                        \* "exported", "reimported" after each call;
                        \* "panicked" when a call has panicked
    html_tree,          \* the document handed to html_to_ocr_tree
    im_classes,         \* what classes() yielded for each of its elements
    internal_ocr_tree,  \* the tree html_to_ocr_tree returned
    html_final,         \* the document add_as_body returned
    round_tree          \* the tree html_to_ocr_tree returned for html_final

importVars == <<im_pc, html_tree, im_classes, internal_ocr_tree, html_final,
                round_tree>>

\* A save of a tree that has been built up.
VARIABLES
    ex_pc,      \* "building" before save_file is called, "saved" after
    ex_tree,    \* the tree handed to add_as_body
    ex_before,  \* the tree when save_file was entered
    ex_iter,    \* the order in which each property map yielded its keys
    ex_html     \* the document add_as_body returned

exportVars == <<ex_pc, ex_tree, ex_before, ex_iter, ex_html>>

\* The properties of one node written to a title and parsed back.
VARIABLES
    rt_pc,      \* "none" before a node is there; "stored": the node holds its
                \* properties; "written": the title has been formatted;
                \* "parsed", "panicked": parse_properties has returned or
                \* panicked
    rt_props,   \* ocr_properties of the node
    rt_iter,    \* the order in which ocr_properties.iter() yields the keys
    rt_title,   \* the title attribute written for the node
    rt_back     \* what parse_properties returned for the title

roundVars == <<rt_pc, rt_props, rt_iter, rt_title, rt_back>>

\* The editor and its update cycles.
VARIABLES
    editor,     \* the fields of HOCREditor
    ed_panic    \* the message of the panic that ended update, "" when none

editorVars == <<editor, ed_panic>>

vars == <<treeVars, parseVars, importVars, exportVars, roundVars, editorVars>>

-----------------------------------------------------------------------------
\* Values of the Rust types

Tree(n, r, c) == [nodes |-> n, roots |-> r, curr_id |-> c]

Node(value, parent, children, id) ==
    [value |-> value, parent |-> parent, children |-> children, id |-> id]

Self == Tree(nodes, roots, curr_id)

EmptyMap == [k \in {} |-> 0]

None == [tag |-> "None"]
Some(v) == [tag |-> "Some", val |-> v]
Panic(msg) == [tag |-> "Panic", msg |-> msg]

\* Result of a method taking &mut self: the tree it leaves, whether it
\* returned Ok (or unit), the identity it returned, and the panic message.
Done(t, ret) == [tree |-> t, ok |-> TRUE, ret |-> ret, panic |-> ""]
Err(t) == [tree |-> t, ok |-> FALSE, ret |-> NoId, panic |-> ""]
Abort(t, msg) == [tree |-> t, ok |-> FALSE, ret |-> NoId, panic |-> msg]

-----------------------------------------------------------------------------
\* Vec and HashMap primitives

Range(s) == {s[i] : i \in 1 .. Len(s)}

\* Iterator::position(|&x| x == *id): the first index holding x.
Position(s, x) ==
    IF \E i \in 1 .. Len(s) : s[i] = x
    THEN CHOOSE i \in 1 .. Len(s) : s[i] = x /\ \A j \in 1 .. (i - 1) : s[j] # x
    ELSE NoIndex

\* Vec::insert: x becomes the entry at index p, later entries shift right.
VecInsert(s, p, x) == SubSeq(s, 1, p - 1) \o <<x>> \o SubSeq(s, p, Len(s))

\* Vec::remove: the entry at index p goes, later entries shift left.
VecRemove(s, p) == SubSeq(s, 1, p - 1) \o SubSeq(s, p + 1, Len(s))

\* HashMap::insert: an existing entry under k is overwritten.
MapInsert(m, k, v) == [x \in DOMAIN m \cup {k} |-> IF x = k THEN v ELSE m[x]]

\* HashMap::remove.
MapRemove(m, k) == [x \in DOMAIN m \ {k} |-> m[x]]

-----------------------------------------------------------------------------
\* Tree<D> methods (src/tree.rs)

\* Tree::new
new == Tree(EmptyMap, <<>>, 0)

\* add_root with the identity taken from the size of the node map instead of
\* the counter: identities come back after a deletion.
add_root_len(t, root) ==
    LET id == Cardinality(DOMAIN t.nodes) IN
    Done(Tree(MapInsert(t.nodes, id, Node(root, NoId, <<>>, id)),
              Append(t.roots, id),
              t.curr_id + 1),
         id)

\* Tree::add_root
add_root(t, root) ==
    LET id == t.curr_id IN
    Done(Tree(MapInsert(t.nodes, id, Node(root, NoId, <<>>, id)),
              Append(t.roots, id),
              t.curr_id + 1),
         id)

\* push_child that puts the new child first in the parent's child list.
push_child_front(t, id, child) ==
    IF id \in DOMAIN t.nodes
    THEN LET new_id == t.curr_id
             pushed == [t.nodes EXCEPT ![id].children = <<new_id>> \o @]
         IN  Done(Tree(MapInsert(pushed, new_id, Node(child, id, <<>>, new_id)),
                       t.roots,
                       t.curr_id + 1),
                  new_id)
    ELSE Err(t)

\* Tree::push_child
push_child(t, id, child) ==
    IF id \in DOMAIN t.nodes
    THEN LET new_id == t.curr_id
             pushed == [t.nodes EXCEPT ![id].children = Append(@, new_id)]
         IN  Done(Tree(MapInsert(pushed, new_id, Node(child, id, <<>>, new_id)),
                       t.roots,
                       t.curr_id + 1),
                  new_id)
    ELSE Err(t)

\* Tree::get_node: Some(value) or None.
get_node(t, id) ==
    IF id \in DOMAIN t.nodes THEN Some(t.nodes[id].value) ELSE None

\* Tree::get_mut_node: Some(value) or None.
get_mut_node(t, id) ==
    IF id \in DOMAIN t.nodes THEN Some(t.nodes[id].value) ELSE None

\* Tree::children: the child list, empty when the node does not exist.
children(t, id) ==
    IF id \in DOMAIN t.nodes THEN t.nodes[id].children ELSE <<>>

\* Tree::parent
parent(t, id) ==
    IF id \in DOMAIN t.nodes THEN t.nodes[id].parent ELSE NoId

\* siblings that takes a node that does not exist for a root.
siblings_absent_as_root(t, id) ==
    IF id \in DOMAIN t.nodes /\ t.nodes[id].parent # NoId
    THEN LET par_id == t.nodes[id].parent IN
         IF par_id \in DOMAIN t.nodes
         THEN Some(t.nodes[par_id].children)
         ELSE Panic("node's parent doesn't exist")
    ELSE Some(t.roots)

\* Tree::siblings: None when the node does not exist, else the list the node
\* stands in; panics when the recorded parent does not exist.
siblings(t, id) ==
    IF id \in DOMAIN t.nodes
    THEN LET par_id == t.nodes[id].parent IN
         IF par_id # NoId
         THEN IF par_id \in DOMAIN t.nodes
              THEN Some(t.nodes[par_id].children)
              ELSE Panic("node's parent doesn't exist")
         ELSE Some(t.roots)
    ELSE None

\* Tree::prev_siblings
prev_siblings(t, id) ==
    LET sibs == siblings(t, id) IN
    CASE sibs.tag = "Panic" -> sibs
      [] sibs.tag = "None" -> Some(<<>>)
      [] sibs.tag = "Some" ->
            LET my_index == Position(sibs.val, id) IN
            IF my_index = NoIndex
            THEN Panic("couldn't find id among siblings")
            ELSE Some(SubSeq(sibs.val, 1, my_index - 1))

\* next_siblings that starts at the node itself instead of one past it.
next_siblings_from_self(t, id) ==
    LET sibs == siblings(t, id) IN
    CASE sibs.tag = "Panic" -> sibs
      [] sibs.tag = "None" -> Some(<<>>)
      [] sibs.tag = "Some" ->
            LET my_index == Position(sibs.val, id) IN
            IF my_index = NoIndex
            THEN Panic("couldn't find id among siblings")
            ELSE Some(SubSeq(sibs.val, my_index, Len(sibs.val)))

\* Tree::next_siblings
next_siblings(t, id) ==
    LET sibs == siblings(t, id) IN
    CASE sibs.tag = "Panic" -> sibs
      [] sibs.tag = "None" -> Some(<<>>)
      [] sibs.tag = "Some" ->
            LET my_index == Position(sibs.val, id) IN
            IF my_index = NoIndex
            THEN Panic("couldn't find id among siblings")
            ELSE Some(SubSeq(sibs.val, my_index + 1, Len(sibs.val)))

\* Tree::next_sibling: the first of next_siblings.
next_sibling(t, id) ==
    LET rest == next_siblings(t, id) IN
    CASE rest.tag = "Panic" -> rest
      [] rest.tag = "Some" ->
            IF Len(rest.val) > 0 THEN Some(Head(rest.val)) ELSE None

\* Tree::prev_sibling
prev_sibling(t, id) ==
    IF id \in DOMAIN t.nodes
    THEN LET par_id == t.nodes[id].parent IN
         IF par_id # NoId /\ par_id \notin DOMAIN t.nodes
         THEN Panic("parent of id doesn't exist")
         ELSE LET sibs == IF par_id # NoId THEN t.nodes[par_id].children
                          ELSE t.roots
                  my_index == Position(sibs, id)
              IN  IF my_index = NoIndex
                  THEN Panic("couldn't find id among siblings")
                  ELSE IF my_index > 1 THEN Some(sibs[my_index - 1]) ELSE None
    ELSE None

\* Tree::has_children
has_children(t, id) ==
    IF id \in DOMAIN t.nodes THEN Len(t.nodes[id].children) > 0 ELSE FALSE

\* add_sibling that adds a root when the anchor does not exist.
add_sibling_or_root(t, id, sibling, pos) ==
    IF id \in DOMAIN t.nodes
    THEN LET par_id == t.nodes[id].parent IN
         IF par_id # NoId
         THEN LET new_id == t.curr_id
                  t1 == Tree(MapInsert(t.nodes, new_id,
                                       Node(sibling, par_id, <<>>, new_id)),
                             t.roots,
                             t.curr_id + 1)
                  par_child_index == Position(children(t1, par_id), id)
                  insert_index ==
                      par_child_index + (IF pos = "After" THEN 1 ELSE 0)
              IN  Done([t1 EXCEPT !.nodes[par_id].children =
                            VecInsert(@, insert_index, new_id)],
                       new_id)
         ELSE add_root(t, sibling)
    ELSE add_root(t, sibling)

\* add_sibling that ignores pos and always inserts after the anchor.
add_sibling_after(t, id, sibling, pos) ==
    IF id \in DOMAIN t.nodes
    THEN LET par_id == t.nodes[id].parent IN
         IF par_id # NoId
         THEN LET new_id == t.curr_id
                  t1 == Tree(MapInsert(t.nodes, new_id,
                                       Node(sibling, par_id, <<>>, new_id)),
                             t.roots,
                             t.curr_id + 1)
                  par_child_index == Position(children(t1, par_id), id)
              IN  Done([t1 EXCEPT !.nodes[par_id].children =
                            VecInsert(@, par_child_index + 1, new_id)],
                       new_id)
         ELSE add_root(t, sibling)
    ELSE Err(t)

\* add_sibling that honours pos for a root anchor too, inserting the new
\* root next to the anchor in the root list.
add_sibling_positional(t, id, sibling, pos) ==
    IF id \in DOMAIN t.nodes
    THEN LET par_id == t.nodes[id].parent
             new_id == t.curr_id
             index == Position(IF par_id # NoId THEN children(t, par_id)
                               ELSE t.roots, id)
             insert_index == index + (IF pos = "After" THEN 1 ELSE 0)
             inserted == MapInsert(t.nodes, new_id,
                                   Node(sibling, par_id, <<>>, new_id))
         IN  IF par_id # NoId
             THEN Done(Tree([inserted EXCEPT ![par_id].children =
                                 VecInsert(@, insert_index, new_id)],
                            t.roots, t.curr_id + 1),
                       new_id)
             ELSE Done(Tree(inserted,
                            VecInsert(t.roots, insert_index, new_id),
                            t.curr_id + 1),
                       new_id)
    ELSE Err(t)

\* Tree::add_sibling
add_sibling(t, id, sibling, pos) ==
    IF id \in DOMAIN t.nodes
    THEN LET par_id == t.nodes[id].parent IN
         IF par_id # NoId
         THEN LET new_id == t.curr_id
                  t1 == Tree(MapInsert(t.nodes, new_id,
                                       Node(sibling, par_id, <<>>, new_id)),
                             t.roots,
                             t.curr_id + 1)
                  par_child_index == Position(children(t1, par_id), id)
                  insert_index ==
                      par_child_index + (IF pos = "After" THEN 1 ELSE 0)
              IN  IF par_child_index = NoIndex
                  THEN Abort(t1, "Couldn't find id among parent's children")
                  ELSE IF par_id \notin DOMAIN t1.nodes
                  THEN Abort(t1, "parent of id doesn't exist")
                  ELSE Done([t1 EXCEPT !.nodes[par_id].children =
                                 VecInsert(@, insert_index, new_id)],
                            new_id)
         ELSE add_root(t, sibling)
    ELSE Err(t)

\* delete_child_from_parent that leaves the parent's child list as it is.
delete_child_from_parent_keep(t, par_id, child_id) ==
    IF par_id \notin DOMAIN t.nodes
    THEN Abort(t, "child's parent doesn't exist")
    ELSE Done(t, NoId)

\* Tree::delete_child_from_parent
delete_child_from_parent(t, par_id, child_id) ==
    LET index == Position(children(t, par_id), child_id) IN
    IF par_id \notin DOMAIN t.nodes
    THEN Abort(t, "child's parent doesn't exist")
    ELSE IF index # NoIndex
    THEN Done([t EXCEPT !.nodes[par_id].children = VecRemove(@, index)], NoId)
    ELSE Done(t, NoId)

\* Tree::delete_rec_node, the node map it leaves: the node is taken out of
\* the map and then each of its children, in order, recursively.
RECURSIVE delete_rec_node(_, _)
RECURSIVE delete_rec_children(_, _)
\* delete_rec_node that removes the node and not its children.
delete_rec_node_shallow(n, id) ==
    IF id \in DOMAIN n THEN MapRemove(n, id) ELSE n

delete_rec_node(n, id) ==
    IF id \in DOMAIN n
    THEN delete_rec_children(MapRemove(n, id), n[id].children)
    ELSE n

\* The loop of delete_rec_node stopping after the first child.
delete_rec_children_first(n, cs) ==
    IF cs = <<>> THEN n ELSE delete_rec_node(n, Head(cs))

\* The loop `for child in node.children` of delete_rec_node.
delete_rec_children(n, cs) ==
    IF cs = <<>> THEN n
    ELSE delete_rec_children(delete_rec_node(n, Head(cs)), Tail(cs))

\* delete_node that also cuts the parent of the deleted node off its own
\* parent.
delete_node_detaching(t, id) ==
    LET existed == id \in DOMAIN t.nodes
        parent_id == IF existed THEN t.nodes[id].parent ELSE NoId
        t1 == [t EXCEPT !.nodes = delete_rec_node(t.nodes, id)]
        detached ==
            IF parent_id \in DOMAIN t1.nodes
            THEN [t1 EXCEPT !.nodes[parent_id].parent = NoId]
            ELSE t1
    IN  IF existed
        THEN IF parent_id = NoId
             THEN LET index == Position(t1.roots, id) IN
                  IF index # NoIndex
                  THEN Done([t1 EXCEPT !.roots = VecRemove(@, index)], NoId)
                  ELSE Done(t1, NoId)
             ELSE delete_child_from_parent(detached, parent_id, id)
        ELSE Done(t1, NoId)

\* Tree::delete_node
delete_node(t, id) ==
    LET existed == id \in DOMAIN t.nodes
        parent_id == IF existed THEN t.nodes[id].parent ELSE NoId
        t1 == [t EXCEPT !.nodes = delete_rec_node(t.nodes, id)]
    IN  IF existed
        THEN IF parent_id = NoId
             THEN LET index == Position(t1.roots, id) IN
                  IF index # NoIndex
                  THEN Done([t1 EXCEPT !.roots = VecRemove(@, index)], NoId)
                  ELSE Done(t1, NoId)
             ELSE delete_child_from_parent(t1, parent_id, id)
        ELSE Done(t1, NoId)

\* merge_sibling that appends the sibling's children for Before as well.
merge_sibling_append(t, id, pos) ==
    LET sib_id == IF pos = "After" THEN next_sibling(t, id)
                  ELSE prev_sibling(t, id)
    IN
    CASE sib_id.tag = "Panic" -> Abort(t, sib_id.msg)
      [] sib_id.tag = "None" -> Done(t, NoId)
      [] sib_id.tag = "Some" ->
            LET sibling_id == sib_id.val
                sib_children == children(t, sibling_id)
                reparented ==
                    [k \in DOMAIN t.nodes |->
                        IF k \in Range(sib_children)
                        THEN [t.nodes[k] EXCEPT !.parent = id]
                        ELSE t.nodes[k]]
                extended ==
                    [reparented EXCEPT ![id].children = @ \o sib_children]
            IN  delete_node(
                    [t EXCEPT !.nodes =
                        [extended EXCEPT ![sibling_id].children = <<>>]],
                    sibling_id)

\* merge_sibling that removes the sibling while it still holds its children.
merge_sibling_delete_first(t, id, pos) ==
    LET sib_id == IF pos = "After" THEN next_sibling(t, id)
                  ELSE prev_sibling(t, id)
    IN
    CASE sib_id.tag = "Panic" -> Abort(t, sib_id.msg)
      [] sib_id.tag = "None" -> Done(t, NoId)
      [] sib_id.tag = "Some" ->
            LET sibling_id == sib_id.val
                sib_children == children(t, sibling_id)
                reparented ==
                    [k \in DOMAIN t.nodes |->
                        IF k \in Range(sib_children)
                        THEN [t.nodes[k] EXCEPT !.parent = id]
                        ELSE t.nodes[k]]
                extended ==
                    [reparented EXCEPT ![id].children =
                        IF pos = "After" THEN @ \o sib_children
                        ELSE sib_children \o @]
            IN  delete_node([t EXCEPT !.nodes = extended], sibling_id)

\* merge_sibling without the early return: with no sibling on the requested
\* side it runs into the expectation that a sibling was found.
merge_sibling_no_return(t, id, pos) ==
    LET sib_id == IF pos = "After" THEN next_sibling(t, id)
                  ELSE prev_sibling(t, id)
    IN
    CASE sib_id.tag = "Panic" -> Abort(t, sib_id.msg)
      [] sib_id.tag = "None" ->
            Abort(t, "failed te return even though sibling was None")
      [] sib_id.tag = "Some" ->
            LET sibling_id == sib_id.val
                sib_children == children(t, sibling_id)
                reparented ==
                    [k \in DOMAIN t.nodes |->
                        IF k \in Range(sib_children)
                        THEN [t.nodes[k] EXCEPT !.parent = id]
                        ELSE t.nodes[k]]
                extended ==
                    [reparented EXCEPT ![id].children =
                        IF pos = "After" THEN @ \o sib_children
                        ELSE sib_children \o @]
            IN  delete_node(
                    [t EXCEPT !.nodes =
                        [extended EXCEPT ![sibling_id].children = <<>>]],
                    sibling_id)

\* Tree::merge_sibling
merge_sibling(t, id, pos) ==
    LET sib_id == IF pos = "After" THEN next_sibling(t, id)
                  ELSE prev_sibling(t, id)
    IN
    CASE sib_id.tag = "Panic" -> Abort(t, sib_id.msg)
      [] sib_id.tag = "None" -> Done(t, NoId)
      [] sib_id.tag = "Some" ->
            LET sibling_id == sib_id.val
                sib_children == children(t, sibling_id)
                reparented ==
                    [k \in DOMAIN t.nodes |->
                        IF k \in Range(sib_children)
                        THEN [t.nodes[k] EXCEPT !.parent = id]
                        ELSE t.nodes[k]]
                extended ==
                    IF id \in DOMAIN reparented
                    THEN [reparented EXCEPT ![id].children =
                             IF pos = "After" THEN @ \o sib_children
                             ELSE sib_children \o @]
                    ELSE reparented
            IN  IF sibling_id \notin DOMAIN extended
                THEN Abort([t EXCEPT !.nodes = extended],
                           "sibling of id didn't exist")
                ELSE delete_node(
                         [t EXCEPT !.nodes =
                             [extended EXCEPT ![sibling_id].children = <<>>]],
                         sibling_id)

-----------------------------------------------------------------------------
\* The attribute mini-language (src/ocr_element.rs)
\*
\* A &str is modelled as the sequence of its space-free tokens, the tokens of
\* the text being separated by single spaces: "bbox 10 1.5" is
\* <<"bbox", "10", "1.5">>.  The content of a title attribute is the sequence
\* of its clauses, the pieces between the separators "; ".  f32 values are
\* held in tenths (1.5 is 15), u32 values as they are.

\* Tokens that str::parse::<f32> accepts, and the value it returns (tenths).
F32Tokens == {"0", "1", "10", "1.5", "-2"}

F32Of(tok) ==
    CASE tok = "0" -> 0
      [] tok = "1" -> 10
      [] tok = "10" -> 100
      [] tok = "1.5" -> 15
      [] tok = "-2" -> -20

\* Tokens that str::parse::<u32> accepts, and the value it returns.
U32Tokens == {"0", "1", "10"}

U32Of(tok) ==
    CASE tok = "0" -> 0
      [] tok = "1" -> 1
      [] tok = "10" -> 10

\* Result<T, E> of a conversion: Ok(v), Error(msg) or a panic.
Ok(v) == [tag |-> "Ok", val |-> v]
Error(msg) == [tag |-> "Err", msg |-> msg]

\* str::parse::<f32> of a string: one token that reads as a float.
parse_f32(str) ==
    IF Len(str) = 1 /\ str[1] \in F32Tokens THEN Ok(F32Of(str[1]))
    ELSE Error("invalid float literal")

\* str::parse::<u32> of a string: one token that reads as an unsigned integer.
parse_u32(str) ==
    IF Len(str) = 1 /\ str[1] \in U32Tokens THEN Ok(U32Of(str[1]))
    ELSE Error("invalid digit found in string")

\* str::split(" "): the pieces between single spaces, each a string; the
\* empty string has one (empty) piece.
split(str) ==
    IF str = <<>> THEN << <<>> >> ELSE [i \in 1 .. Len(str) |-> <<str[i]>>]

\* str::splitn(2, " "): the first piece and the rest of the string.
splitn2(str) ==
    IF Len(str) <= 1 THEN <<str>> ELSE << <<Head(str)>>, Tail(str) >>

\* str::split_once(" "): None when the string holds no space.
split_once(str) ==
    IF Len(str) >= 2 THEN Some(<<Head(str), Tail(str)>>) ELSE None

\* str::trim on a string of non-empty tokens: there is no outer whitespace.
trim(str) == str

\* Iterator::take(n)
take(s, n) == SubSeq(s, 1, IF Len(s) < n THEN Len(s) ELSE n)

\* collect::<Result<Vec<_>, _>>(): the values when every piece converted,
\* else the first error.
collect(results) ==
    IF \E i \in 1 .. Len(results) : results[i].tag = "Err"
    THEN results[CHOOSE i \in 1 .. Len(results) :
                    /\ results[i].tag = "Err"
                    /\ \A j \in 1 .. (i - 1) : results[j].tag # "Err"]
    ELSE Ok([i \in 1 .. Len(results) |-> results[i].val])

\* The string with the quote characters at its two ends taken off, for the
\* quoted tokens of the model.
StripLeadingQuote(tok) ==
    CASE tok = "\"a.png\"" -> "a.png\""
      [] tok = "\"a" -> "a"
      [] OTHER -> tok

StripTrailingQuote(tok) ==
    CASE tok = "\"a.png\"" -> "\"a.png"
      [] tok = "b.png\"" -> "b.png"
      [] OTHER -> tok

StripBothQuotes(tok) == IF tok = "\"a.png\"" THEN "a.png" ELSE tok

\* str::trim_matches('"')
trim_matches_quote(str) ==
    IF Len(str) = 0 THEN str
    ELSE IF Len(str) = 1 THEN <<StripBothQuotes(str[1])>>
    ELSE <<StripLeadingQuote(str[1])>> \o SubSeq(str, 2, Len(str) - 1)
         \o <<StripTrailingQuote(str[Len(str)])>>

\* egui::Rect { min: Pos2, max: Pos2 }
Rect(x0, y0, x1, y1) ==
    [min |-> [x |-> x0, y |-> y0], max |-> [x |-> x1, y |-> y1]]

\* enum OCRProperty
BBox(rect) == [kind |-> "BBox", rect |-> rect]
Image(path) == [kind |-> "Image", path |-> path]
Float(f) == [kind |-> "Float", f |-> f]
UInt(u) == [kind |-> "UInt", u |-> u]
Baseline(f1, f2) == [kind |-> "Baseline", f1 |-> f1, f2 |-> f2]
ScanRes(u1, u2) == [kind |-> "ScanRes", u1 |-> u1, u2 |-> u2]

\* The conversion of each piece of a split string to f32.
parse_each_f32(strs) == [i \in 1 .. Len(strs) |-> parse_f32(strs[i])]

\* The conversion of each piece of a split string to u32.
parse_each_u32(strs) == [i \in 1 .. Len(strs) |-> parse_u32(strs[i])]

\* The match on coords with the two corners of the rectangle exchanged.
coords_to_rect_swapped(coords) ==
    IF coords.tag = "Err"
    THEN Error("Failed conversion to f32")
    ELSE IF Len(coords.val) < 4
    THEN Panic("index out of bounds")
    ELSE Ok(Rect(coords.val[3], coords.val[4], coords.val[1], coords.val[2]))

\* The match on coords in rect_from_attr: the vector is indexed at 0 .. 3,
\* which panics when it holds fewer than four values.
coords_to_rect(coords) ==
    IF coords.tag = "Err"
    THEN Error("Failed conversion to f32")
    ELSE IF Len(coords.val) < 4
    THEN Panic("index out of bounds")
    ELSE Ok(Rect(coords.val[1], coords.val[2], coords.val[3], coords.val[4]))

\* rect_from_attr: up to four pieces of the trimmed string are converted and
\* collected.
rect_from_attr(str) ==
    coords_to_rect(collect(parse_each_f32(take(split(trim(str)), 4))))

\* The arm "bbox": match rect_from_attr(suffix).
bbox_prop(rect) ==
    IF rect.tag = "Ok" THEN Some(BBox(rect.val))
    ELSE IF rect.tag = "Err" THEN None
    ELSE rect

\* The arm "baseline": match parts, indexed at 0 and 1.
baseline_prop(parts) ==
    IF parts.tag = "Err" THEN None
    ELSE IF Len(parts.val) < 2 THEN Panic("index out of bounds")
    ELSE Some(Baseline(parts.val[1], parts.val[2]))

\* The arm "ppageno" | "x_wconf": match suffix.parse::<u32>().
uint_prop(v) == IF v.tag = "Ok" THEN Some(UInt(v.val)) ELSE None

\* The arm "scan_res": match parts, indexed at 0 and 1.
scan_res_prop(parts) ==
    IF parts.tag = "Err" THEN None
    ELSE IF Len(parts.val) < 2 THEN Panic("index out of bounds")
    ELSE Some(ScanRes(parts.val[1], parts.val[2]))

\* The arm "x_size" | "x_descenders" | "x_ascenders": match
\* suffix.parse::<f32>().
float_prop(v) == IF v.tag = "Ok" THEN Some(Float(v.val)) ELSE None

\* The match on the key in parse_properties: Some(property), None, or a panic.
ocr_prop(trimmed, suffix) ==
    CASE trimmed = "image" -> Some(Image(trim_matches_quote(suffix)))
      [] trimmed = "bbox" -> bbox_prop(rect_from_attr(suffix))
      [] trimmed = "baseline" ->
            baseline_prop(collect(parse_each_f32(splitn2(suffix))))
      [] trimmed \in {"ppageno", "x_wconf"} -> uint_prop(parse_u32(suffix))
      [] trimmed = "scan_res" ->
            scan_res_prop(collect(parse_each_u32(splitn2(suffix))))
      [] trimmed \in {"x_size", "x_descenders", "x_ascenders"} ->
            float_prop(parse_f32(suffix))
      [] OTHER -> None

\* if !ocr_prop.is_none() { property_dict.insert(..) }: the dictionary after
\* the pass, or the panic of the match.
insert_prop(property_dict, trimmed, prop) ==
    IF prop.tag = "Panic" THEN prop
    ELSE IF prop.tag = "None" THEN Ok(property_dict)
    ELSE Ok(MapInsert(property_dict, trimmed, prop.val))

\* One pass of the loop of parse_properties over a clause: the dictionary it
\* leaves, or a panic.
parse_pattern(property_dict, pattern) ==
    IF split_once(pattern).tag = "None" THEN Ok(property_dict)
    ELSE insert_prop(property_dict,
                     split_once(pattern).val[1],
                     ocr_prop(split_once(pattern).val[1],
                              split_once(pattern).val[2]))

\* parse_properties without its last check: the dictionary, a bbox in it or
\* not.
parse_finish_unchecked(property_dict) == Ok(property_dict)

\* The end of parse_properties: the dictionary, or the error that it holds no
\* bbox.
parse_finish(property_dict) ==
    IF "bbox" \notin DOMAIN property_dict
    THEN Error("Couldn't find bbox in properties!")
    ELSE Ok(property_dict)

\* The loop of parse_properties from a dictionary over the clauses left;
\* after a pass it goes on with the clauses left unless the pass panicked.
RECURSIVE parse_loop(_, _)
RECURSIVE parse_next(_, _)
parse_loop(property_dict, patterns) ==
    IF patterns = <<>> THEN Ok(property_dict)
    ELSE parse_next(parse_pattern(property_dict, Head(patterns)),
                    Tail(patterns))

parse_next(step, patterns) ==
    IF step.tag = "Panic" THEN step ELSE parse_loop(step.val, patterns)

\* What parse_properties returns after its loop.
parse_end(looped) ==
    IF looped.tag = "Panic" THEN looped ELSE parse_finish(looped.val)

\* OCRProperty::parse_properties
parse_properties(title_content) == parse_end(parse_loop(EmptyMap, title_content))

-----------------------------------------------------------------------------
\* Import of a markup document (src/ocr_element.rs)
\*
\* A parsed document (scraper::Html) is modelled as the sequence of its
\* elements below body in document order.  Each element names its parent
\* element by index (0: it stands directly in body), so the child elements of
\* an element are those naming it, in index order.  An attribute is None when
\* absent and Some(value) when present; class is the list of the tokens of
\* the class attribute; text is the text node at the front of the element's
\* content, "" when there is none.

Element(par, name, class, title, lang, id, text) ==
    [parent |-> par, name |-> name, class |-> class, title |-> title,
     lang |-> lang, id |-> id, text |-> text]

\* struct OCRElement
OCRElement(html_element_type, ocr_element_type, ocr_properties, ocr_text, ocr_lang) ==
    [html_element_type |-> html_element_type,
     ocr_element_type |-> ocr_element_type,
     ocr_properties |-> ocr_properties,
     ocr_text |-> ocr_text,
     ocr_lang |-> ocr_lang]

\* The classes of OCR_SELECTOR.
OCR_SELECTOR ==
    {"ocr_page", "ocr_carea", "ocr_line", "ocr_par", "ocrx_word",
     "ocr_caption", "ocr_separator", "ocr_photo"}

\* Selector::matches for a selector that is a list of classes.
matches(selector, elt) == Range(elt.class) \cap selector # {}

\* The matching elements that stand directly in body.
select_in_body(html, selector) ==
    LET Hit(i) == matches(selector, html[i]) /\ html[i].parent = 0
    IN  SelectSeq([i \in 1 .. Len(html) |-> i], Hit)

\* Html::select: the elements of the whole document that match, in document
\* order.
select(html, selector) ==
    LET Hit(i) == matches(selector, html[i])
    IN  SelectSeq([i \in 1 .. Len(html) |-> i], Hit)

\* ElementRef::children restricted to elements (ElementRef::wrap).
elt_children(html, elt) ==
    LET Hit(i) == html[i].parent = elt
    IN  SelectSeq([i \in 1 .. Len(html) |-> i], Hit)

\* The element i stands in the subtree of the element elt.
RECURSIVE Within(_, _, _)
Within(html, i, elt) ==
    \/ i = elt
    \/ i # 0 /\ Within(html, html[i].parent, elt)

\* str::trim().is_empty() for the text nodes of the model.
is_blank(str) == str \in {"", " "}

\* Itertools::join("") of a sequence of strings.
RECURSIVE join(_)
join(strs) == IF strs = <<>> THEN "" ELSE Head(strs) \o join(Tail(strs))

\* The text nodes that are children of the element alone.
get_root_text_direct(html, root) ==
    IF is_blank(html[root].text) THEN "" ELSE html[root].text

\* OCRElement::get_root_text: ElementRef::text yields the text nodes of the
\* whole subtree in document order.
get_root_text(html, root) ==
    LET Hit(i) == Within(html, i, root) /\ ~is_blank(html[i].text)
        kept == SelectSeq([i \in 1 .. Len(html) |-> i], Hit)
    IN  join([k \in 1 .. Len(kept) |-> html[kept[k]].text])

\* str::starts_with("ocr") for the class tokens of the model.
starts_with_ocr(class) == class \in OCR_SELECTOR \cup {"ocr_header"}

\* OCRClass::from_str
from_str(str) ==
    CASE str = "ocr_page" -> Ok("Page")
      [] str = "ocr_carea" -> Ok("CArea")
      [] str = "ocr_line" -> Ok("Line")
      [] str = "ocr_par" -> Ok("Par")
      [] str = "ocrx_word" -> Ok("Word")
      [] str = "ocr_photo" -> Ok("Photo")
      [] str = "ocr_separator" -> Ok("Separator")
      [] str = "ocr_caption" -> Ok("Caption")
      [] OTHER -> Error("ParseOCRError")

\* The loop over the classes left at the first class that starts with "ocr".
RECURSIVE ocr_class_of_first(_, _)
ocr_class_of_first(classes, ocr_class) ==
    IF classes = <<>> THEN ocr_class
    ELSE IF starts_with_ocr(Head(classes)) THEN Head(classes)
    ELSE ocr_class_of_first(Tail(classes), ocr_class)

\* The loop over elt.value().classes(): the last class that starts with
\* "ocr", "" when there is none.
RECURSIVE ocr_class_of(_, _)
ocr_class_of(classes, ocr_class) ==
    IF classes = <<>> THEN ocr_class
    ELSE ocr_class_of(Tail(classes),
                      IF starts_with_ocr(Head(classes)) THEN Head(classes)
                      ELSE ocr_class)

\* The returns of html_elt_to_ocr_elt, given the class the loop has found,
\* what it parses to and what the title parses to.
ocr_elt_of(html, elt, ocr_class, ocr_elt_type, ocr_properties) ==
    IF ocr_class = "" THEN Error("Found no OCR class")
    ELSE IF ocr_elt_type.tag = "Err"
    THEN Error("Failed to parse into OCR class")
    ELSE IF ocr_properties.tag # "Ok" THEN ocr_properties
    ELSE Ok(OCRElement(html[elt].name,
                       ocr_elt_type.val,
                       ocr_properties.val,
                       IF matches({"ocrx_word"}, html[elt])
                       THEN get_root_text(html, elt) ELSE "",
                       html[elt].lang))

\* OCRElement::html_elt_to_ocr_elt.  classes is what elt.value().classes()
\* yields: scraper keeps the classes of an element as a set, so the order is
\* not that of the class attribute.
html_elt_to_ocr_elt(html, elt, classes) ==
    ocr_elt_of(html, elt,
               ocr_class_of(classes, ""),
               from_str(ocr_class_of(classes, "")),
               IF html[elt].title.tag = "Some"
               THEN parse_properties(html[elt].title.val)
               ELSE Error("No content in title attribute"))

\* OCRElement::add_children_to_ocr_tree, from the child elements still to
\* visit: the tree with the converted children of elt_ref below par_id, or a
\* panic.  iters gives for each element what classes() yields.
RECURSIVE add_children_from(_, _, _, _, _)
RECURSIVE child_converted(_, _, _, _, _, _)
RECURSIVE child_pushed(_, _, _, _, _, _)
RECURSIVE child_walked(_, _, _, _, _)
RECURSIVE add_children_to_ocr_tree(_, _, _, _, _)
add_children_from(html, iters, todo, par_id, tree) ==
    IF todo = <<>> THEN Ok(tree)
    ELSE IF ~matches(OCR_SELECTOR, html[Head(todo)])
    THEN add_children_from(html, iters, Tail(todo), par_id, tree)
    ELSE child_converted(html, iters, todo, par_id, tree,
                         html_elt_to_ocr_elt(html, Head(todo),
                                             iters[Head(todo)]))

\* The child has been converted: .and_then(|elt| tree.push_child(..))
child_converted(html, iters, todo, par_id, tree, converted) ==
    IF converted.tag = "Panic" THEN converted
    ELSE IF converted.tag = "Err"
    THEN add_children_from(html, iters, Tail(todo), par_id, tree)
    ELSE child_pushed(html, iters, todo, par_id, tree,
                      push_child(tree, par_id, converted.val))

\* The child has been pushed: .map(|added_id| add_children_to_ocr_tree(..))
child_pushed(html, iters, todo, par_id, tree, pushed) ==
    IF ~pushed.ok
    THEN add_children_from(html, iters, Tail(todo), par_id, tree)
    ELSE child_walked(html, iters, todo, par_id,
                      add_children_to_ocr_tree(html, iters, Head(todo),
                                               pushed.ret, pushed.tree))

\* The subtree of the child has been walked: on with the next child.
child_walked(html, iters, todo, par_id, below) ==
    IF below.tag = "Panic" THEN below
    ELSE add_children_from(html, iters, Tail(todo), par_id, below.val)

\* OCRElement::add_children_to_ocr_tree
add_children_to_ocr_tree(html, iters, elt_ref, par_id, tree) ==
    add_children_from(html, iters, elt_children(html, elt_ref), par_id, tree)

\* The loop of html_to_ocr_tree over the selected pages still to visit.
RECURSIVE add_pages_from(_, _, _, _)
RECURSIVE page_converted(_, _, _, _, _)
RECURSIVE page_rooted(_, _, _, _)
RECURSIVE page_walked(_, _, _, _)
add_pages_from(html, iters, todo, tree) ==
    IF todo = <<>> THEN Ok(tree)
    ELSE page_converted(html, iters, todo, tree,
                        html_elt_to_ocr_elt(html, Head(todo),
                                            iters[Head(todo)]))

\* The page has been converted: .map(|elt| tree.add_root(elt))
page_converted(html, iters, todo, tree, converted) ==
    IF converted.tag = "Panic" THEN converted
    ELSE IF converted.tag = "Err"
    THEN add_pages_from(html, iters, Tail(todo), tree)
    ELSE page_rooted(html, iters, todo, add_root(tree, converted.val))

\* The page is a root: .map(|id| add_children_to_ocr_tree(page_elt, id, ..))
page_rooted(html, iters, todo, rooted) ==
    page_walked(html, iters, todo,
                add_children_to_ocr_tree(html, iters, Head(todo), rooted.ret,
                                         rooted.tree))

\* The subtree of the page has been walked: on with the next page.
page_walked(html, iters, todo, below) ==
    IF below.tag = "Panic" THEN below
    ELSE add_pages_from(html, iters, Tail(todo), below.val)

\* OCRElement::html_to_ocr_tree
html_to_ocr_tree(html, iters) ==
    add_pages_from(html, iters, select(html, {"ocr_page"}), new)

-----------------------------------------------------------------------------
\* Export of a tree as markup (src/ocr_element.rs)

\* f32 as u32: the fraction is cut off, a negative value becomes 0.
as_u32(f) == IF f < 0 THEN 0 ELSE f \div 10

\* u32::to_string for the values of the model.
u32_to_string(u) ==
    CASE u = 0 -> "0"
      [] u = 1 -> "1"
      [] u = 10 -> "10"

\* f32::to_string for the values of the model (tenths).
f32_to_string(f) ==
    CASE f = 0 -> "0"
      [] f = 10 -> "1"
      [] f = 100 -> "10"
      [] f = 15 -> "1.5"
      [] f = -20 -> "-2"

\* format!(r#""{}""#, path): a quote before and after the string.
quoted(str) ==
    IF Len(str) = 0 THEN <<"\"\"">>
    ELSE IF Len(str) = 1 THEN <<"\"" \o str[1] \o "\"">>
    ELSE <<"\"" \o str[1]>> \o SubSeq(str, 2, Len(str) - 1)
         \o <<str[Len(str)] \o "\"">>

\* OCRProperty::to_str
to_str(prop) ==
    CASE prop.kind = "BBox" ->
            <<u32_to_string(as_u32(prop.rect.min.x)),
              u32_to_string(as_u32(prop.rect.min.y)),
              u32_to_string(as_u32(prop.rect.max.x)),
              u32_to_string(as_u32(prop.rect.max.y))>>
      [] prop.kind = "Image" -> quoted(prop.path)
      [] prop.kind = "Float" -> <<f32_to_string(prop.f)>>
      [] prop.kind = "UInt" -> <<u32_to_string(prop.u)>>
      [] prop.kind = "Baseline" ->
            <<f32_to_string(prop.f1), f32_to_string(prop.f2)>>
      [] prop.kind = "ScanRes" ->
            <<u32_to_string(prop.u1), u32_to_string(prop.u2)>>

\* OCRClass::to_string
to_string(class) ==
    CASE class = "CArea" -> "ocr_carea"
      [] class = "Page" -> "ocr_page"
      [] class = "Line" -> "ocr_line"
      [] class = "Par" -> "ocr_par"
      [] class = "Word" -> "ocrx_word"
      [] class = "Photo" -> "ocr_photo"
      [] class = "Separator" -> "ocr_separator"
      [] class = "Caption" -> "ocr_caption"

\* OCRClass::to_id_str
to_id_str(class) ==
    CASE class \in {"CArea", "Separator", "Photo"} -> "block"
      [] class = "Page" -> "page"
      [] class \in {"Line", "Caption"} -> "line"
      [] class = "Par" -> "par"
      [] class = "Word" -> "word"

\* The counters when only pages are counted.
count_up_pages_only(ids, type_id) ==
    IF type_id = "page" THEN [ids EXCEPT ![type_id] = @ + 1] ELSE ids

\* ids.insert(type_id.clone(), curr_no + 1)
count_up(ids, type_id) == [ids EXCEPT ![type_id] = @ + 1]

\* The identifier with the page counter as it stands.
html_id_of_counter(type_id, ids, curr_no) ==
    IF type_id = "page" THEN <<"page", curr_no>>
    ELSE <<type_id, ids["page"], curr_no>>

\* The identifier add_ocr_tree formats: "page_n" or "type_p_n".
html_id_of(type_id, ids, curr_no) ==
    IF type_id = "page" THEN <<"page", curr_no>>
    ELSE <<type_id, ids["page"] - 1, curr_no>>

\* add_ocr_tree: the counters and the document after the node and its subtree
\* have been appended below the element parent_id.  iters gives for each node
\* the order in which its property map yields its keys.
RECURSIVE add_ocr_tree(_, _, _, _, _, _)
RECURSIVE add_ocr_children_from(_, _, _, _, _, _)
add_ocr_tree(tree, node, ids, html, parent_id, iters) ==
    IF get_node(tree, node).tag = "None" THEN [ids |-> ids, html |-> html]
    ELSE LET n == get_node(tree, node).val
             type_id == to_id_str(n.ocr_element_type)
             curr_no == ids[type_id]
             counted == count_up(ids, type_id)
             html_id == html_id_of(type_id, counted, curr_no)
             props == [k \in 1 .. Len(iters[node]) |->
                          <<iters[node][k]>>
                          \o to_str(n.ocr_properties[iters[node][k]])]
             child_id == Len(html) + 1
             appended == Append(html,
                                Element(parent_id,
                                        n.html_element_type,
                                        <<to_string(n.ocr_element_type)>>,
                                        Some(props),
                                        n.ocr_lang,
                                        Some(html_id),
                                        n.ocr_text))
         IN  add_ocr_children_from(tree, children(tree, node), counted,
                                   appended, child_id, iters)

\* The loop of add_ocr_tree, and of add_as_body, over the nodes still to
\* append below the element parent_id.
add_ocr_children_from(tree, todo, ids, html, parent_id, iters) ==
    IF todo = <<>> THEN [ids |-> ids, html |-> html]
    ELSE LET done == add_ocr_tree(tree, Head(todo), ids, html, parent_id, iters)
         IN  add_ocr_children_from(tree, Tail(todo), done.ids, done.html,
                                   parent_id, iters)

\* add_as_body with the counters carried on from the document of the
\* save before.
add_as_body_continued(tree, iters) ==
    LET ids == [type_id \in {"page", "block", "par", "line", "word"} |->
                   1 + Len(ex_html)]
    IN  add_ocr_children_from(tree, tree.roots, ids, <<>>, 0, iters).html

\* add_as_body: the elements below the new body.
add_as_body(tree, iters) ==
    LET ids == [type_id \in {"page", "block", "par", "line", "word"} |-> 1]
    IN  add_ocr_children_from(tree, tree.roots, ids, <<>>, 0, iters).html

-----------------------------------------------------------------------------
\* The editor (src/main.rs)
\*
\* A method of HOCREditor takes and gives a run: the fields of the editor and
\* the message of the panic that has ended the cycle, "" while it goes on.
\* After a panic every method leaves the run as it is.

\* impl Default for HOCREditor
default ==
    [file_path |-> None,
     image_path |-> None,
     file_path_changed |-> FALSE,
     internal_ocr_tree |-> new,
     mode |-> "Select",
     selected_id |-> None,
     merge_id |-> None,
     merge_position |-> "Before",
     parent_id |-> None,
     sibling_id |-> None,
     sibling_position |-> "Before"]

Running(ed) == [self |-> ed, panic |-> ""]

\* The run after a call of a &mut method of the tree.
TreeCall(run, out) ==
    [self |-> [run.self EXCEPT !.internal_ocr_tree = out.tree],
     panic |-> out.panic]

\* HOCREditor::merge
merge(run) ==
    IF run.panic # "" THEN run
    ELSE IF run.self.merge_id = None THEN run
    ELSE LET called == TreeCall(run,
                                merge_sibling(run.self.internal_ocr_tree,
                                              run.self.merge_id.val,
                                              run.self.merge_position))
         IN  IF called.panic # "" THEN called
             ELSE [called EXCEPT !.self.merge_id = None]

\* HOCREditor::make_new_sibling
make_new_sibling(run) ==
    IF run.panic # "" THEN run
    ELSE IF run.self.sibling_id = None THEN run
    ELSE LET id == run.self.sibling_id.val
             sibling == get_node(run.self.internal_ocr_tree, id)
         IN  IF sibling = None
             THEN [run EXCEPT !.panic = "sibling id doesn't exist in tree"]
             ELSE LET called ==
                          TreeCall(run,
                                   add_sibling(run.self.internal_ocr_tree, id,
                                               sibling.val,
                                               run.self.sibling_position))
                  IN  IF called.panic # "" THEN called
                      ELSE [called EXCEPT !.self.sibling_id = None]

\* HOCREditor::make_new_child
make_new_child(run) ==
    IF run.panic # "" THEN run
    ELSE IF run.self.parent_id = None THEN run
    ELSE LET id == run.self.parent_id.val
             node == get_node(run.self.internal_ocr_tree, id)
         IN  IF node = None
             THEN [run EXCEPT !.panic = "id doesn't exist in tree"]
             ELSE IF "bbox" \notin DOMAIN node.val.ocr_properties
             THEN [run EXCEPT !.panic = "node doesn't have a bbox"]
             ELSE LET properties ==
                          [k \in {"bbox"} |-> node.val.ocr_properties["bbox"]]
                      called ==
                          TreeCall(run,
                                   push_child(run.self.internal_ocr_tree, id,
                                              OCRElement("span", "Word",
                                                         properties, "",
                                                         None)))
                  IN  IF called.panic # "" THEN called
                      ELSE [called EXCEPT !.self.parent_id = None]

\* HOCREditor::update_internal_tree
update_internal_tree(run) == make_new_child(make_new_sibling(merge(run)))

\* HOCREditor::open_file, the dialog answered with a file.
open_file(run) ==
    IF run.panic # "" THEN run
    ELSE [run EXCEPT !.self.file_path = Some("file"),
                     !.self.file_path_changed = TRUE]

\* The node value after an edit in the property panel: "type" selects a
\* class in the combo box, "bbox" drags the first number of the box to a
\* value, "text" edits the text of a word.
edited(value, edit) ==
    CASE edit = "type" -> [value EXCEPT !.ocr_element_type = "Line"]
      [] edit = "bbox" ->
            IF "bbox" \in DOMAIN value.ocr_properties
               /\ value.ocr_properties["bbox"].kind = "BBox"
            THEN [value EXCEPT !.ocr_properties["bbox"].rect.min.x = 0]
            ELSE value
      [] edit = "text" ->
            IF value.ocr_element_type = "Word"
            THEN [value EXCEPT !.ocr_text = ""]
            ELSE value
      [] OTHER -> value

\* The side panel of update: in Edit mode the selected node is edited in
\* place through get_mut_node.
side_panel(run, edit) ==
    IF run.panic # "" THEN run
    ELSE IF run.self.selected_id = None \/ run.self.mode # "Edit" THEN run
    ELSE IF get_mut_node(run.self.internal_ocr_tree,
                         run.self.selected_id.val) = None
    THEN run
    ELSE [run EXCEPT
             !.self.internal_ocr_tree.nodes[run.self.selected_id.val].value =
                 edited(@, edit)]

\* HOCREditor::render_tree over the clicks of the cycle: a click on the label
\* of the node label, and a click on a button of the context menu of the
\* node id.
render_tree(run, label, button, id) ==
    IF run.panic # "" THEN run
    ELSE LET picked == IF label = NoId THEN run
                       ELSE [run EXCEPT !.self.selected_id = Some(label)]
         IN  CASE button = "Merge below" ->
                    [picked EXCEPT !.self.merge_id = Some(id),
                                   !.self.merge_position = "After"]
               [] button = "Merge above" ->
                    [picked EXCEPT !.self.merge_id = Some(id),
                                   !.self.merge_position = "Before"]
               [] button = "Sibling below" ->
                    [picked EXCEPT !.self.sibling_id = Some(id),
                                   !.self.sibling_position = "After"]
               [] button = "Sibling above" ->
                    [picked EXCEPT !.self.sibling_id = Some(id),
                                   !.self.sibling_position = "Before"]
               [] button = "New child" ->
                    [picked EXCEPT !.self.parent_id = Some(id)]
               [] OTHER -> picked

\* The loop of reparse_file over the roots: the path of the image of the last
\* root that has one.
RECURSIVE image_of_roots(_, _, _)
image_of_roots(tree, todo, image_path) ==
    IF todo = <<>> THEN image_path
    ELSE LET props == tree.nodes[Head(todo)].value.ocr_properties IN
         image_of_roots(tree, Tail(todo),
                        IF "image" \in DOMAIN props
                           /\ props["image"].kind = "Image"
                        THEN Some(<<"file://">> \o props["image"].path)
                        ELSE image_path)

\* HOCREditor::reparse_file, given what html_to_ocr_tree makes of the file.
reparse_file(run, imported) ==
    IF run.panic # "" THEN run
    ELSE IF run.self.file_path = None THEN run
    ELSE IF imported.tag = "Panic" THEN [run EXCEPT !.panic = imported.msg]
    ELSE IF \E k \in 1 .. Len(imported.val.roots) :
                imported.val.roots[k] \notin DOMAIN imported.val.nodes
    THEN [run EXCEPT !.self.internal_ocr_tree = imported.val,
                     !.panic = "marked as root id but doesn't exist in tree"]
    ELSE [run EXCEPT
             !.self.internal_ocr_tree = imported.val,
             !.self.image_path = image_of_roots(imported.val,
                                                imported.val.roots, @),
             !.self.file_path_changed = FALSE]

\* f32::max(0.0) of a sum of a coordinate and the drag deltas.
dragged(coord, delta) == IF coord + delta < 0 THEN 0 ELSE coord + delta

\* HOCREditor::draw_bbox
draw_bbox(run, elt_id) ==
    IF run.panic # "" THEN run
    ELSE IF get_node(run.self.internal_ocr_tree, elt_id) = None THEN run
    ELSE IF "bbox" \notin
              DOMAIN get_node(run.self.internal_ocr_tree,
                              elt_id).val.ocr_properties
    THEN [run EXCEPT !.panic = "Node doesn't have a bbox"]
    ELSE run

\* The loop of draw_img_and_bboxes over the siblings of the selected node.
RECURSIVE draw_each(_, _)
draw_each(run, todo) ==
    IF todo = <<>> THEN run
    ELSE draw_each(draw_bbox(run, Head(todo)), Tail(todo))

\* The bounding box of the selected node after the drags of the cycle: the
\* responses at the left edge and the left corners move min.x by delta, the
\* others do not move.
drag_bbox(run, elt, delta) ==
    IF get_mut_node(run.self.internal_ocr_tree, elt) = None THEN run
    ELSE IF "bbox" \notin
              DOMAIN get_mut_node(run.self.internal_ocr_tree,
                                  elt).val.ocr_properties
    THEN run
    ELSE IF get_mut_node(run.self.internal_ocr_tree,
                         elt).val.ocr_properties["bbox"].kind # "BBox"
    THEN run
    ELSE [run EXCEPT
             !.self.internal_ocr_tree.nodes[elt].value
                  .ocr_properties["bbox"].rect =
                 Rect(dragged(@.min.x, delta), dragged(@.min.y, 0),
                      dragged(@.max.x, 0), dragged(@.max.y, 0))]

\* The siblings drawn in Select mode: prev_siblings chained with
\* next_siblings, or the panic of one of them.
siblings_drawn(before, after) ==
    IF before.tag = "Panic" THEN before
    ELSE IF after.tag = "Panic" THEN after
    ELSE Some(before.val \o after.val)

\* The end of draw_img_and_bboxes: the selected node has been dragged and
\* drawn.
draw_siblings(run, drawn) ==
    IF run.panic # "" \/ run.self.mode # "Select" THEN run
    ELSE IF drawn.tag = "Panic" THEN [run EXCEPT !.panic = drawn.msg]
    ELSE draw_each(run, drawn.val)

\* HOCREditor::draw_img_and_bboxes
draw_img_and_bboxes(run, delta) ==
    IF run.panic # "" THEN run
    ELSE IF run.self.image_path = None \/ run.self.selected_id = None
    THEN run
    ELSE draw_siblings(
             draw_bbox(drag_bbox(run, run.self.selected_id.val, delta),
                       run.self.selected_id.val),
             siblings_drawn(prev_siblings(run.self.internal_ocr_tree,
                                          run.self.selected_id.val),
                            next_siblings(run.self.internal_ocr_tree,
                                          run.self.selected_id.val)))

\* The end of delete_selected: next_sibling has returned.
deleted(run, elt, next_sib) ==
    IF next_sib.tag = "Panic" THEN [run EXCEPT !.panic = next_sib.msg]
    ELSE [TreeCall(run, delete_node(run.self.internal_ocr_tree, elt))
             EXCEPT !.self.selected_id = next_sib]

\* HOCREditor::delete_selected
delete_selected(run) ==
    IF run.panic # "" THEN run
    ELSE IF run.self.selected_id = None THEN run
    ELSE deleted(run, run.self.selected_id.val,
                 next_sibling(run.self.internal_ocr_tree,
                              run.self.selected_id.val))

\* The keys E and Escape of the central panel.
mode_keys(run, key) ==
    IF run.panic # "" THEN run
    ELSE CASE key = "E" -> [run EXCEPT !.self.mode = "Edit"]
           [] key = "Escape" -> [run EXCEPT !.self.mode = "Select"]
           [] OTHER -> run

\* What the user does in one cycle of update: File > Open with what
\* html_to_ocr_tree makes of the file, an edit in the side panel, a click on
\* a label, a click on a button of a context menu, a key of the central
\* panel, a drag of the selected box, the delete key.
Input(open, imported, edit, label, button, node, key, drag, delete) ==
    [open |-> open, imported |-> imported, edit |-> edit, label |-> label,
     button |-> button, node |-> node, key |-> key, drag |-> drag,
     delete |-> delete]

\* The cycle in which the user does nothing.
NoInput == Input(FALSE, Ok(new), "", NoId, "", NoId, "", 0, FALSE)

\* The menu bar of update.
menu_bar(run, input) == IF input.open THEN open_file(run) ELSE run

\* if self.file_path_changed { self.reparse_file() }
central_reparse(run, input) ==
    IF run.panic = "" /\ run.self.file_path_changed
    THEN reparse_file(run, input.imported)
    ELSE run

\* if .. consume_key(COMMAND, Backspace) { self.delete_selected() }
central_delete(run, input) ==
    IF input.delete THEN delete_selected(run) ELSE run

\* impl eframe::App for HOCREditor: update
update(ed, input) ==
    update_internal_tree(
        central_delete(
            draw_img_and_bboxes(
                mode_keys(
                    central_reparse(
                        render_tree(
                            side_panel(menu_bar(Running(ed), input),
                                       input.edit),
                            input.label, input.button, input.node),
                        input),
                    input.key),
                input.drag),
            input))

-----------------------------------------------------------------------------
\* The state machine: one action per public method of Tree

Call(op, id, pos, value, ok, ret, view) ==
    [op |-> op, id |-> id, pos |-> pos, value |-> value,
     ok |-> ok, ret |-> ret, view |-> view]

\* The caller is between two calls.
NoCall == Call("none", NoId, "-", NoValue, TRUE, NoId, <<>>)

Creating == {"add_root", "push_child", "add_sibling"}

\* The values a caller passes to a creating call in the current state.
FreshValues == {v \in Values : v[2] = curr_id}

\* A method can be called: nothing has panicked and the caller is not in a call.
Ready == panic = "" /\ last = NoCall

\* A call of a &mut self method: the tree and the panic flag become what the
\* method leaves, the call and the tree it started from are recorded.
Mutate(op, id, pos, value, out) ==
    /\ nodes' = out.tree.nodes
    /\ roots' = out.tree.roots
    /\ curr_id' = out.tree.curr_id
    /\ panic' = out.panic
    /\ last' = Call(op, id, pos, value, out.ok, out.ret, <<>>)
    /\ pre' = Self
    /\ issued' = IF op \in Creating /\ out.ok THEN Append(issued, out.ret)
                 ELSE issued
    /\ UNCHANGED <<parseVars, importVars, exportVars, roundVars, editorVars>>

\* A call of a &self method returning Option<InternalID>.
QueryId(op, id, res) ==
    /\ UNCHANGED <<nodes, roots, curr_id, issued>>
    /\ UNCHANGED <<parseVars, importVars, exportVars, roundVars, editorVars>>
    /\ panic' = IF res.tag = "Panic" THEN res.msg ELSE ""
    /\ last' = Call(op, id, "-", NoValue, res.tag # "Panic",
                    IF res.tag = "Some" THEN res.val ELSE NoId, <<>>)
    /\ pre' = Self

\* A call of a &self method returning an iterator over identities.
QueryView(op, id, res) ==
    /\ UNCHANGED <<nodes, roots, curr_id, issued>>
    /\ UNCHANGED <<parseVars, importVars, exportVars, roundVars, editorVars>>
    /\ panic' = IF res.tag = "Panic" THEN res.msg ELSE ""
    /\ last' = Call(op, id, "-", NoValue, res.tag # "Panic", NoId,
                    IF res.tag = "Some" THEN res.val ELSE <<>>)
    /\ pre' = Self

\* A call of a &self method returning Option<&D>: ok tells Some from None.
QueryValue(op, id, res) ==
    /\ UNCHANGED <<nodes, roots, curr_id, issued, panic>>
    /\ UNCHANGED <<parseVars, importVars, exportVars, roundVars, editorVars>>
    /\ last' = Call(op, id, "-", IF res.tag = "Some" THEN res.val ELSE NoValue,
                    res.tag = "Some", NoId, <<>>)
    /\ pre' = Self

\* No tree call has been made.
TreeInit ==
    /\ nodes = new.nodes
    /\ roots = new.roots
    /\ curr_id = new.curr_id
    /\ panic = ""
    /\ last = NoCall
    /\ pre = new
    /\ issued = <<>>

\* parse_properties has been entered: the dictionary is empty and no clause
\* has been taken.
ParseInit ==
    /\ pp_pc = "loop"
    /\ pp_dict = EmptyMap
    /\ pp_n = 0
    /\ pp_pattern = <<>>
    /\ pp_before = EmptyMap
    /\ pp_result = None
    /\ pp_wellformed = {}
    /\ pp_malformed = FALSE
    /\ pp_produced = {}

\* No file has been opened.
ImportInit ==
    /\ im_pc = "idle"
    /\ html_tree = <<>>
    /\ im_classes = <<>>
    /\ internal_ocr_tree = new
    /\ html_final = <<>>
    /\ round_tree = new

\* No node has been made and save_file has not been called.
ExportInit ==
    /\ ex_pc = "building"
    /\ ex_tree = new
    /\ ex_before = new
    /\ ex_iter = EmptyMap
    /\ ex_html = <<>>

\* The editor has been made and update has not run.
EditorInit ==
    /\ editor = default
    /\ ed_panic = ""

\* No node is there.
RoundInit ==
    /\ rt_pc = "none"
    /\ rt_props = EmptyMap
    /\ rt_iter = <<>>
    /\ rt_title = <<>>
    /\ rt_back = None

Init ==
    /\ TreeInit
    /\ ParseInit
    /\ ImportInit
    /\ ExportInit
    /\ RoundInit
    /\ EditorInit

AddRoot ==
    /\ Ready
    /\ curr_id < MaxId
    /\ \E v \in FreshValues :
          Mutate("add_root", NoId, "-", v, add_root(Self, v))

PushChild ==
    /\ Ready
    /\ curr_id < MaxId
    /\ \E id \in Ids, v \in FreshValues :
          Mutate("push_child", id, "-", v, push_child(Self, id, v))

AddSibling ==
    /\ Ready
    /\ curr_id < MaxId
    /\ \E id \in Ids, v \in FreshValues, pos \in Positions :
          Mutate("add_sibling", id, pos, v, add_sibling(Self, id, v, pos))

MergeSibling ==
    /\ Ready
    /\ \E id \in Ids, pos \in Positions :
          Mutate("merge_sibling", id, pos, NoValue, merge_sibling(Self, id, pos))

DeleteNode ==
    /\ Ready
    /\ \E id \in Ids :
          Mutate("delete_node", id, "-", NoValue, delete_node(Self, id))

NextSibling ==
    /\ Ready
    /\ \E id \in Ids : QueryId("next_sibling", id, next_sibling(Self, id))

PrevSibling ==
    /\ Ready
    /\ \E id \in Ids : QueryId("prev_sibling", id, prev_sibling(Self, id))

NextSiblings ==
    /\ Ready
    /\ \E id \in Ids : QueryView("next_siblings", id, next_siblings(Self, id))

PrevSiblings ==
    /\ Ready
    /\ \E id \in Ids : QueryView("prev_siblings", id, prev_siblings(Self, id))

GetNode ==
    /\ Ready
    /\ \E id \in Ids : QueryValue("get_node", id, get_node(Self, id))

GetMutNode ==
    /\ Ready
    /\ \E id \in Ids : QueryValue("get_mut_node", id, get_mut_node(Self, id))

Children ==
    /\ Ready
    /\ \E id \in Ids : QueryView("children", id, Some(children(Self, id)))

Parent ==
    /\ Ready
    /\ \E id \in Ids :
          QueryId("parent", id,
                  IF parent(Self, id) = NoId THEN None
                  ELSE Some(parent(Self, id)))

\* The caller takes the result of the call that returned and goes on; a
\* panicked call never returns.
Return ==
    /\ panic = ""
    /\ last # NoCall
    /\ last' = NoCall
    /\ pre' = Self
    /\ UNCHANGED <<nodes, roots, curr_id, panic, issued>>
    /\ UNCHANGED <<parseVars, importVars, exportVars, roundVars, editorVars>>

Next ==
    \/ AddRoot
    \/ PushChild
    \/ AddSibling
    \/ MergeSibling
    \/ DeleteNode
    \/ NextSibling
    \/ PrevSibling
    \/ NextSiblings
    \/ PrevSiblings
    \/ GetNode
    \/ GetMutNode
    \/ Children
    \/ Parent
    \/ Return

Spec == Init /\ [][Next]_vars

-----------------------------------------------------------------------------
\* The state machine of the property parser: one action per pass of the loop
\* of parse_properties, one for its return

\* The keys of the match in parse_properties, and one it does not know.
Keys == {"image", "bbox", "baseline", "ppageno", "x_wconf", "scan_res",
         "x_size", "x_descenders", "x_ascenders", "x_font"}

\* Number of value tokens the branch of a key reads.
Arity(key) ==
    CASE key = "bbox" -> 4
      [] key \in {"baseline", "scan_res"} -> 2
      [] key = "x_font" -> 0
      [] OTHER -> 1

\* Value tokens of the clauses: an integer, a float that is no integer, and
\* a token that is no number; for image a quoted and a bare path.
InputTokens(key) ==
    IF key = "image" THEN {"\"a.png\"", "a.png"} ELSE {"10", "1.5", "x"}

\* The remainders of the clauses of a key: up to as many tokens as its branch
\* reads, and the full ones with a token more.
Remainders(key) ==
    LET upto == UNION {[1 .. n -> InputTokens(key)] : n \in 0 .. Arity(key)}
    IN  upto \cup {r \o <<"10">> : r \in [1 .. Arity(key) -> InputTokens(key)]}

\* The clauses of a key: the key alone, or the key, a space and a remainder.
ClausesOf(key) == {<<key>> \o r : r \in Remainders(key)}

\* The clauses of the attribute texts, the empty clause among them.
Clauses == {<<>>} \cup UNION {ClausesOf(key) : key \in Keys}

\* The key of a clause, "" for the empty clause.
KeyOf(clause) == IF clause = <<>> THEN "" ELSE Head(clause)

\* The clause holds, after its key, exactly the tokens described for the key
\* and each reads as the type described.
WellFormed(clause) ==
    /\ clause # <<>>
    /\ LET key == Head(clause)
           rest == Tail(clause)
       IN  CASE key = "bbox" ->
                    Len(rest) = 4 /\ \A i \in 1 .. 4 : rest[i] \in F32Tokens
             [] key = "baseline" ->
                    Len(rest) = 2 /\ \A i \in 1 .. 2 : rest[i] \in F32Tokens
             [] key = "scan_res" ->
                    Len(rest) = 2 /\ \A i \in 1 .. 2 : rest[i] \in U32Tokens
             [] key \in {"ppageno", "x_wconf"} ->
                    Len(rest) = 1 /\ rest[1] \in U32Tokens
             [] key \in {"x_size", "x_descenders", "x_ascenders"} ->
                    Len(rest) = 1 /\ rest[1] \in F32Tokens
             [] key = "image" -> Len(rest) >= 1
             [] OTHER -> FALSE

\* The clause has a numeric key and, among the value tokens described for the
\* key, one that does not read as the type described.
Malformed(clause) ==
    /\ clause # <<>>
    /\ LET key == Head(clause)
           rest == Tail(clause)
           read == 1 .. (IF Len(rest) < Arity(key) THEN Len(rest) ELSE Arity(key))
       IN  CASE key \in {"bbox", "baseline", "x_size", "x_descenders",
                         "x_ascenders"} ->
                    \E i \in read : rest[i] \notin F32Tokens
             [] key \in {"scan_res", "ppageno", "x_wconf"} ->
                    \E i \in read : rest[i] \notin U32Tokens
             [] OTHER -> FALSE

\* The property a pass of the loop has produced for a clause, None when it
\* produced none.
Produced(clause) ==
    IF split_once(clause).tag = "None" THEN None
    ELSE ocr_prop(split_once(clause).val[1], split_once(clause).val[2])

\* A pass of the for loop over the next clause of the text.
ParseClause ==
    /\ pp_pc = "loop"
    /\ pp_n < MaxClauses
    /\ \E clause \in Clauses :
          LET step == parse_pattern(pp_dict, clause) IN
          /\ pp_pattern' = clause
          /\ pp_before' = pp_dict
          /\ pp_n' = pp_n + 1
          /\ pp_pc' = IF step.tag = "Panic" THEN "panicked" ELSE "body"
          /\ pp_dict' = IF step.tag = "Panic" THEN pp_dict ELSE step.val
          /\ pp_wellformed' = IF WellFormed(clause)
                              THEN pp_wellformed \cup {KeyOf(clause)}
                              ELSE pp_wellformed
          /\ pp_malformed' = (pp_malformed \/ Malformed(clause))
          /\ pp_produced' = IF Produced(clause).tag = "Some"
                            THEN pp_produced \cup {KeyOf(clause)}
                            ELSE pp_produced
    /\ UNCHANGED pp_result
    /\ UNCHANGED <<treeVars, importVars, exportVars, roundVars, editorVars>>

\* The pass is over: its clause goes out of scope and the loop is at its
\* head again.
EndPass ==
    /\ pp_pc = "body"
    /\ pp_pc' = "loop"
    /\ pp_pattern' = <<>>
    /\ pp_before' = pp_dict
    /\ UNCHANGED <<pp_dict, pp_n, pp_result, pp_wellformed, pp_malformed,
                   pp_produced>>
    /\ UNCHANGED <<treeVars, importVars, exportVars, roundVars, editorVars>>

\* The text has no clause left: the check for bbox and the return.
ParseReturn ==
    /\ pp_pc = "loop"
    /\ pp_pc' = "done"
    /\ pp_result' = parse_finish(pp_dict)
    /\ UNCHANGED <<pp_dict, pp_n, pp_pattern, pp_before, pp_wellformed,
                   pp_malformed, pp_produced>>
    /\ UNCHANGED <<treeVars, importVars, exportVars, roundVars, editorVars>>

ParseNext ==
    \/ ParseClause
    \/ EndPass
    \/ ParseReturn

SpecParse == Init /\ [][ParseNext]_vars

-----------------------------------------------------------------------------
\* The state machine of import and export: one action per call of
\* html_to_ocr_tree and of add_as_body

\* Element names, one per position in the document, so that the element a
\* tree node was converted from can be told from its html_element_type.
TagNames == <<"div", "span", "p", "em", "small">>

\* Class attributes: one OCR class, two of them, and a class that is none.
ClassLists ==
    {<<"ocr_page">>, <<"ocr_line">>, <<"ocrx_word">>,
     <<"ocrx_word", "ocr_page">>, <<"wrap">>}

\* Title attributes: a box of integers, a box with a fraction, no box.
Titles ==
    {<< <<"bbox", "10", "10", "10", "10">> >>,
     << <<"bbox", "1.5", "10", "10", "10">> >>,
     << <<"x_wconf", "10">> >>}

\* Text nodes: none, a blank one, and one that is not blank.
Texts == {"", " ", "a"}

\* What an element holds apart from its place in the document.  The title of
\* an element outside OCR_SELECTOR is never read, so one title stands for
\* all; such an element is where a blank text node is put.  A page that is
\* nothing else is given no text node; a line is given one, and an element
\* of two OCR classes is taken, with the box of whole numbers.
Contents ==
    {c \in [class : ClassLists, title : Titles, text : Texts] :
        /\ c.class = <<"wrap">> =>
              c.title = << <<"bbox", "10", "10", "10", "10">> >>
        /\ c.class # <<"wrap">> => c.text # " "
        /\ c.class = <<"ocr_page">> => c.text = ""
        /\ (c.class = <<"ocr_line">> /\ c.text # "") =>
              c.title = << <<"bbox", "10", "10", "10", "10">> >>
        /\ c.class = <<"ocrx_word", "ocr_page">> =>
              c.title = << <<"bbox", "10", "10", "10", "10">> >>}

\* The elements the element i stands in, itself included, under the parent
\* links p.
RECURSIVE Chain(_, _)
Chain(p, i) == IF i = 0 THEN {} ELSE {i} \cup Chain(p, p[i])

\* Parent links of n elements numbered in document order: an element is a
\* child of body, of the element before it or of an element that one stands
\* in.
Shapes(n) ==
    {p \in [1 .. n -> 0 .. (n - 1)] :
        \A i \in 1 .. n :
            IF i = 1 THEN p[i] = 0 ELSE p[i] \in {0} \cup Chain(p, i - 1)}

\* The document of n elements with the parent links p and the contents c.
Document(n, p, c) ==
    [i \in 1 .. n |->
        Element(p[i], TagNames[i], c[i].class, Some(c[i].title), None, None,
                c[i].text)]

\* The orders in which the members of a set can be yielded.
Perms(S) ==
    {p \in [1 .. Cardinality(S) -> S] :
        \A i, j \in 1 .. Cardinality(S) : p[i] = p[j] => i = j}

\* What classes() can yield for the elements of a document.
ClassIters(html) ==
    {iters \in [1 .. Len(html) ->
                   UNION {Perms(Range(html[i].class)) : i \in 1 .. Len(html)}] :
        \A i \in 1 .. Len(html) : iters[i] \in Perms(Range(html[i].class))}

\* What ocr_properties.iter() can yield for the nodes of a tree.
PropIters(tree) ==
    {iters \in [DOMAIN tree.nodes ->
                   UNION {Perms(DOMAIN tree.nodes[id].value.ocr_properties) :
                          id \in DOMAIN tree.nodes}] :
        \A id \in DOMAIN tree.nodes :
            iters[id] \in Perms(DOMAIN tree.nodes[id].value.ocr_properties)}

\* Html::parse_document of the file that is opened
ParseDocument ==
    /\ im_pc = "idle"
    /\ im_pc' = "parsed"
    /\ \E n \in 0 .. MaxElts :
          \E p \in Shapes(n), c \in [1 .. n -> Contents] :
              html_tree' = Document(n, p, c)
    /\ UNCHANGED <<im_classes, internal_ocr_tree, html_final, round_tree>>
    /\ UNCHANGED <<treeVars, parseVars, exportVars, roundVars, editorVars>>

\* OCRElement::html_to_ocr_tree(html_tree)
Import ==
    /\ im_pc = "parsed"
    /\ \E iters \in ClassIters(html_tree) :
          LET res == html_to_ocr_tree(html_tree, iters) IN
          /\ im_classes' = iters
          /\ im_pc' = IF res.tag = "Panic" THEN "panicked" ELSE "imported"
          /\ internal_ocr_tree' = IF res.tag = "Panic" THEN internal_ocr_tree
                                  ELSE res.val
    /\ UNCHANGED <<html_tree, html_final, round_tree>>
    /\ UNCHANGED <<treeVars, parseVars, exportVars, roundVars, editorVars>>

\* add_as_body(&internal_ocr_tree, &html_write_head)
Export ==
    /\ im_pc = "imported"
    /\ \E iters \in PropIters(internal_ocr_tree) :
          html_final' = add_as_body(internal_ocr_tree, iters)
    /\ im_pc' = "exported"
    /\ UNCHANGED <<html_tree, im_classes, internal_ocr_tree, round_tree>>
    /\ UNCHANGED <<treeVars, parseVars, exportVars, roundVars, editorVars>>

\* OCRElement::html_to_ocr_tree of the exported document
Reimport ==
    /\ im_pc = "exported"
    /\ \E iters \in ClassIters(html_final) :
          LET res == html_to_ocr_tree(html_final, iters) IN
          /\ im_pc' = IF res.tag = "Panic" THEN "panicked" ELSE "reimported"
          /\ round_tree' = IF res.tag = "Panic" THEN round_tree ELSE res.val
    /\ UNCHANGED <<html_tree, im_classes, internal_ocr_tree, html_final>>
    /\ UNCHANGED <<treeVars, parseVars, exportVars, roundVars, editorVars>>

ImportNext ==
    \/ ParseDocument
    \/ Import
    \/ Export
    \/ Reimport

SpecImport == Init /\ [][ImportNext]_vars

-----------------------------------------------------------------------------
\* The state machine of saving: a tree is built up with add_root and
\* push_child and handed to add_as_body by save_file

\* Most nodes a tree is given.
MaxNodes == 3

\* enum OCRClass
OCRClasses ==
    {"Page", "CArea", "Line", "Par", "Word", "Photo", "Separator", "Caption"}

\* The node values: one of each class with a bounding box and no text, the
\* word with a confidence and a text beside.
ExValues ==
    {OCRElement("span", class,
                IF class = "Word"
                THEN [k \in {"bbox", "x_wconf"} |->
                         IF k = "bbox" THEN BBox(Rect(10, 10, 100, 100))
                         ELSE UInt(10)]
                ELSE [k \in {"bbox"} |-> BBox(Rect(10, 10, 100, 100))],
                IF class = "Word" THEN "a" ELSE "",
                None) : class \in OCRClasses}

\* Tree::add_root of a new value
ExAddRoot ==
    /\ ex_pc = "building"
    /\ ex_tree.curr_id < MaxNodes
    /\ \E value \in ExValues : ex_tree' = add_root(ex_tree, value).tree
    /\ UNCHANGED <<ex_pc, ex_before, ex_iter, ex_html>>
    /\ UNCHANGED <<treeVars, parseVars, importVars, roundVars, editorVars>>

\* Tree::push_child of a new value below a node of the tree
ExPushChild ==
    /\ ex_pc = "building"
    /\ ex_tree.curr_id < MaxNodes
    /\ \E id \in DOMAIN ex_tree.nodes, value \in ExValues :
          ex_tree' = push_child(ex_tree, id, value).tree
    /\ UNCHANGED <<ex_pc, ex_before, ex_iter, ex_html>>
    /\ UNCHANGED <<treeVars, parseVars, importVars, roundVars, editorVars>>

\* HOCREditor::save_file: add_as_body(&self.internal_ocr_tree.borrow(), ..)
SaveFile ==
    /\ ex_pc = "building"
    /\ ex_pc' = "saved"
    /\ ex_before' = ex_tree
    /\ \E iters \in PropIters(ex_tree) :
          /\ ex_iter' = iters
          /\ ex_html' = add_as_body(ex_tree, iters)
    /\ UNCHANGED ex_tree
    /\ UNCHANGED <<treeVars, parseVars, importVars, roundVars, editorVars>>

ExportNext ==
    \/ ExAddRoot
    \/ ExPushChild
    \/ SaveFile

SpecExport == Init /\ [][ExportNext]_vars

-----------------------------------------------------------------------------
\* The state machine of a title written and read back: the properties of a
\* node are formatted as add_ocr_tree formats them and handed to
\* parse_properties

\* The f32 and the u32 values of the model.
F32Values == {F32Of(token) : token \in F32Tokens}
U32Values == {U32Of(token) : token \in U32Tokens}

\* The property values a key can hold: what the arm of the key in
\* parse_properties makes, and what the editor can set it to.
StoredValues(key) ==
    CASE key = "image" -> {Image(<<"a.png">>), Image(<<"a", "b.png">>)}
      [] key = "bbox" ->
            {BBox(Rect(x0, y0, x1, y1)) : x0 \in F32Values, y0 \in F32Values,
                                          x1 \in F32Values, y1 \in F32Values}
      [] key = "baseline" ->
            {Baseline(f1, f2) : f1 \in F32Values, f2 \in F32Values}
      [] key \in {"ppageno", "x_wconf"} -> {UInt(u) : u \in U32Values}
      [] key = "scan_res" ->
            {ScanRes(u1, u2) : u1 \in U32Values, u2 \in U32Values}
      [] key \in {"x_size", "x_descenders", "x_ascenders"} ->
            {Float(f) : f \in F32Values}

\* The keys parse_properties stores a property for.
StoredKeys ==
    {"image", "bbox", "baseline", "ppageno", "x_wconf", "scan_res", "x_size",
     "x_descenders", "x_ascenders"}

\* A node holds a bounding box, or a bounding box of whole numbers and one
\* more property.
StoreNode ==
    /\ rt_pc = "none"
    /\ rt_pc' = "stored"
    /\ \E key \in StoredKeys : \E value \in StoredValues(key) :
          rt_props' = IF key = "bbox" THEN [k \in {"bbox"} |-> value]
                      ELSE [k \in {"bbox", key} |->
                               IF k = key THEN value
                               ELSE BBox(Rect(0, 10, 100, 100))]
    /\ UNCHANGED <<rt_iter, rt_title, rt_back>>
    /\ UNCHANGED <<treeVars, parseVars, importVars, exportVars, editorVars>>

\* add_ocr_tree: props.push(format!("{} {}", name, prop.to_str())) for every
\* property, joined with "; "
WriteTitle ==
    /\ rt_pc = "stored"
    /\ rt_pc' = "written"
    /\ \E iter \in Perms(DOMAIN rt_props) :
          /\ rt_iter' = iter
          /\ rt_title' = [k \in 1 .. Len(iter) |->
                             <<iter[k]>> \o to_str(rt_props[iter[k]])]
    /\ UNCHANGED <<rt_props, rt_back>>
    /\ UNCHANGED <<treeVars, parseVars, importVars, exportVars, editorVars>>

\* OCRProperty::parse_properties of the title
ParseTitle ==
    /\ rt_pc = "written"
    /\ rt_pc' = IF parse_properties(rt_title).tag = "Panic" THEN "panicked"
                ELSE "parsed"
    /\ rt_back' = parse_properties(rt_title)
    /\ UNCHANGED <<rt_props, rt_iter, rt_title>>
    /\ UNCHANGED <<treeVars, parseVars, importVars, exportVars, editorVars>>

RoundNext ==
    \/ StoreNode
    \/ WriteTitle
    \/ ParseTitle

SpecRound == Init /\ [][RoundNext]_vars

-----------------------------------------------------------------------------
\* The state machine of the editor: one action per kind of cycle of update

\* The elements of the files that are opened: a page with an image and a
\* bounding box, a page without a bounding box and a word.
EdContents ==
    {[class |-> <<"ocr_page">>,
      title |-> << <<"image", "\"a.png\"">>,
                   <<"bbox", "10", "10", "10", "10">> >>,
      text |-> ""],
     [class |-> <<"ocr_page">>,
      title |-> << <<"image", "\"a.png\"">> >>,
      text |-> ""],
     [class |-> <<"ocrx_word">>,
      title |-> << <<"bbox", "10", "10", "10", "10">> >>,
      text |-> "a"]}

\* The buttons of the context menu of a node that are clicked.
Buttons == {"Merge above", "Sibling above", "New child"}

\* Most identities the tree of the editor hands out.
MaxMade == 2

\* One cycle of update on the input; the counter of the tree stays within
\* MaxMade.
Cycle(input) ==
    /\ ed_panic = ""
    /\ \E run \in {update(editor, input)} :
          /\ run.self.internal_ocr_tree.curr_id <= MaxMade
          /\ editor' = run.self
          /\ ed_panic' = run.panic
    /\ UNCHANGED <<treeVars, parseVars, importVars, exportVars, roundVars>>

\* A cycle in which a file is opened; one file is opened in a session.
UpdateOpen ==
    /\ editor.file_path = None
    /\ \E n \in 0 .. MaxElts :
          \E p \in Shapes(n), c \in [1 .. n -> EdContents] :
              Cycle([NoInput EXCEPT
                        !.open = TRUE,
                        !.imported =
                            html_to_ocr_tree(Document(n, p, c),
                                             [i \in 1 .. n |-> c[i].class])])

\* A cycle in which the label of a node is clicked.
UpdateSelect ==
    \E id \in DOMAIN editor.internal_ocr_tree.nodes :
        Cycle([NoInput EXCEPT !.label = id])

\* A cycle in which E or Escape is pressed.
UpdateKey ==
    \E key \in {"E", "Escape"} : Cycle([NoInput EXCEPT !.key = key])

\* A cycle in which the selected node is edited in the side panel.
UpdateEdit ==
    \E edit \in {"bbox"} :
        Cycle([NoInput EXCEPT !.edit = edit])

\* A cycle in which the image and the boxes are drawn, the left edge of the
\* selected box dragged or not.
UpdateDraw ==
    \E drag \in {0, -20} : Cycle([NoInput EXCEPT !.drag = drag])

\* A cycle in which a button of the context menu of a node is clicked, the
\* delete key pressed or not.
UpdateMenu ==
    \E id \in DOMAIN editor.internal_ocr_tree.nodes, button \in Buttons,
       delete \in BOOLEAN :
        Cycle([NoInput EXCEPT !.button = button, !.node = id,
                              !.delete = delete])

\* A cycle in which the delete key is pressed.
UpdateDelete == Cycle([NoInput EXCEPT !.delete = TRUE])

EditorNext ==
    \/ UpdateOpen
    \/ UpdateSelect
    \/ UpdateKey
    \/ UpdateEdit
    \/ UpdateDraw
    \/ UpdateMenu
    \/ UpdateDelete

SpecEditor == Init /\ [][EditorNext]_vars

-----------------------------------------------------------------------------
\* Vocabulary of the properties, stated on tree values without the methods

Present(t) == DOMAIN t.nodes

\* Number of entries of s equal to x.
Count(s, x) == Cardinality({i \in 1 .. Len(s) : s[i] = x})

NoDuplicates(s) == \A i, j \in 1 .. Len(s) : s[i] = s[j] => i = j

\* The list a present node stands in: the root list or its parent's children.
HomeList(t, id) ==
    IF t.nodes[id].parent = NoId THEN t.roots
    ELSE t.nodes[t.nodes[id].parent].children

\* s with its entry at index i taken out.
Without(s, i) == [k \in 1 .. (Len(s) - 1) |-> IF k < i THEN s[k] ELSE s[k + 1]]

\* The index of x in a list that holds it once.
IndexOf(s, x) == CHOOSE i \in 1 .. Len(s) : s[i] = x

\* Every node below id in t.
RECURSIVE Descendants(_, _)
Descendants(t, id) ==
    LET cs == IF id \in Present(t) THEN Range(t.nodes[id].children) ELSE {}
    IN  cs \cup UNION {Descendants(t, c) : c \in cs}

\* The last call was op on an identity present in the tree it started from.
CalledOnPresent(op) == last.op = op /\ last.id \in Present(pre)

\* The last call was op on an identity absent from the tree it started from.
CalledOnAbsent(op) == last.op = op /\ last.id \notin Present(pre)

-----------------------------------------------------------------------------
\* C1: every identity returned by a creating operation (add_root, push_child,
\* add_sibling) is strictly greater than every identity returned before it, so
\* no identity is handed out twice, deletions and merges in between included.
C1_IdentitiesStrictlyIncreasing ==
    \A i, j \in 1 .. Len(issued) : i < j => issued[i] < issued[j]

\* A creating call has returned after an earlier identity was deleted or
\* merged away.
C1_Witness ==
    /\ last.op \in Creating
    /\ last.ok
    /\ \E i \in 1 .. (Len(issued) - 1) : issued[i] \notin Present(pre)

\* C2: in every reachable state each recorded parent is present; each node
\* appears exactly once over the root list and all child lists, in the root
\* list iff its parent is None and otherwise in the child list of exactly its
\* recorded parent; the lists hold present identities only, none twice.
C2_ForestWellFormed ==
    /\ \A k \in Present(Self) :
          nodes[k].parent # NoId => nodes[k].parent \in Present(Self)
    /\ \A k \in Present(Self) :
          /\ Count(roots, k) = (IF nodes[k].parent = NoId THEN 1 ELSE 0)
          /\ \A p \in Present(Self) :
                Count(nodes[p].children, k) =
                    (IF nodes[k].parent = p THEN 1 ELSE 0)
    /\ Range(roots) \subseteq Present(Self)
    /\ NoDuplicates(roots)
    /\ \A p \in Present(Self) :
          /\ Range(nodes[p].children) \subseteq Present(Self)
          /\ NoDuplicates(nodes[p].children)

\* A merge has just removed a node from a forest that keeps two roots and a
\* node with a parent.
C2_Witness ==
    /\ last.op = "merge_sibling"
    /\ Cardinality(Present(Self)) < Cardinality(Present(pre))
    /\ Len(roots) >= 2
    /\ \E k \in Present(Self) : nodes[k].parent # NoId

\* C3: no sequence of public calls, on present or absent identities, makes an
\* expectation of add_sibling, siblings, prev_siblings, next_siblings,
\* prev_sibling, merge_sibling or delete_child_from_parent fail.
C3_NoFatalAbort == panic = ""

\* A sibling query has returned for a node with a parent after some node was
\* deleted or merged away.
C3_Witness ==
    /\ last.op \in {"next_sibling", "prev_sibling",
                    "next_siblings", "prev_siblings"}
    /\ last.id \in Present(Self)
    /\ nodes[last.id].parent # NoId
    /\ Cardinality(Present(Self)) < Len(issued)

\* C4: a call with an identity that is not in the Forest leaves the node map,
\* the root list, the child lists and the counter as they were; push_child and
\* add_sibling return an error, delete_node and merge_sibling do nothing.
C4_AbsentIdLeavesForestUnchanged ==
    \A op \in {"push_child", "add_sibling", "merge_sibling", "delete_node"} :
        CalledOnAbsent(op) =>
            /\ Self = pre
            /\ panic = ""
            /\ op \in {"push_child", "add_sibling"} =>
                  ~last.ok /\ last.ret = NoId

\* add_sibling was called on an identity that was issued and is gone, in a
\* forest that is not empty.
C4_Witness ==
    /\ CalledOnAbsent("add_sibling")
    /\ last.id \in Range(issued)
    /\ Present(pre) # {}

\* C5: delete_node on a present node with N descendants removes exactly those
\* N + 1 nodes, and the list that held the node is the previous list with
\* that one entry taken out, the other entries keeping their order.
C5_DeleteRemovesSubtree ==
    CalledOnPresent("delete_node") =>
        LET id == last.id
            gone == {id} \cup Descendants(pre, id)
            home == HomeList(pre, id)
            par == pre.nodes[id].parent
        IN  /\ Present(Self) = Present(pre) \ gone
            /\ Cardinality(Present(pre)) - Cardinality(Present(Self)) =
                  Cardinality(Descendants(pre, id)) + 1
            /\ Count(home, id) = 1
            /\ IF par = NoId
               THEN roots = Without(home, IndexOf(home, id))
               ELSE /\ par \in Present(Self)
                    /\ nodes[par].children = Without(home, IndexOf(home, id))

\* A node with descendants two levels deep was deleted from between two
\* other entries of its list.
C5_Witness ==
    /\ CalledOnPresent("delete_node")
    /\ \E c \in Descendants(pre, last.id) : pre.nodes[c].parent # last.id
    /\ LET home == HomeList(pre, last.id)
       IN  1 < IndexOf(home, last.id) /\ IndexOf(home, last.id) < Len(home)

\* The entry next to a present node in its list, on the side pos names; NoId
\* when the node is the last entry (After) or the first (Before).
Neighbour(t, id, pos) ==
    LET home == HomeList(t, id)
        i == IndexOf(home, id)
    IN  IF pos = "After"
        THEN IF i < Len(home) THEN home[i + 1] ELSE NoId
        ELSE IF i > 1 THEN home[i - 1] ELSE NoId

\* The last call was a merge_sibling that had a sibling on the requested side.
MergeFound ==
    /\ CalledOnPresent("merge_sibling")
    /\ Neighbour(pre, last.id, last.pos) # NoId

\* C6: when merge_sibling(id, pos) finds a sibling, id's child list becomes
\* id's former children followed by the sibling's former children for After,
\* and the sibling's former children followed by id's for Before, each group
\* in its former order.
C6_MergeConcatenatesChildren ==
    MergeFound =>
        LET id == last.id
            sib == Neighbour(pre, id, last.pos)
            mine == pre.nodes[id].children
            theirs == pre.nodes[sib].children
        IN  /\ id \in Present(Self)
            /\ nodes[id].children =
                  (IF last.pos = "After" THEN mine \o theirs ELSE theirs \o mine)

\* A Before merge where both nodes had children and one had at least two.
C6_Witness ==
    /\ MergeFound
    /\ last.pos = "Before"
    /\ LET mine == pre.nodes[last.id].children
           theirs == pre.nodes[Neighbour(pre, last.id, "Before")].children
       IN  Len(mine) >= 1 /\ Len(theirs) >= 1 /\ Len(mine) + Len(theirs) >= 3

\* C7: when merge_sibling(id, pos) finds a sibling, the sibling is the one
\* node removed: its former children and all their descendants are still
\* present, each former child records id as its parent, and the sibling is
\* gone from the list it stood in.
C7_MergeRemovesOnlySibling ==
    MergeFound =>
        LET id == last.id
            sib == Neighbour(pre, id, last.pos)
            par == pre.nodes[sib].parent
        IN  /\ Present(Self) = Present(pre) \ {sib}
            /\ Descendants(pre, sib) \subseteq Present(Self)
            /\ \A c \in Range(pre.nodes[sib].children) :
                  c \in Present(Self) /\ nodes[c].parent = id
            /\ IF par = NoId
               THEN sib \notin Range(roots)
               ELSE par \in Present(Self) /\ sib \notin Range(nodes[par].children)

\* An After merge whose sibling had a child with a child of its own.
C7_Witness ==
    /\ MergeFound
    /\ last.pos = "After"
    /\ LET sib == Neighbour(pre, last.id, "After")
       IN  \E c \in Descendants(pre, sib) : pre.nodes[c].parent # sib

\* C8: merge_sibling(id, After) on the last entry of a sibling list and
\* merge_sibling(id, Before) on the first entry change nothing: node count,
\* root list, child lists and parent links are as before.
C8_MergeWithoutSiblingIsNoOp ==
    (/\ CalledOnPresent("merge_sibling")
     /\ Neighbour(pre, last.id, last.pos) = NoId) =>
        /\ Self = pre
        /\ panic = ""

\* merge_sibling(id, After) was called on a last entry that has children and
\* a previous sibling with children.
C8_Witness ==
    /\ CalledOnPresent("merge_sibling")
    /\ last.pos = "After"
    /\ Neighbour(pre, last.id, "After") = NoId
    /\ Neighbour(pre, last.id, "Before") # NoId
    /\ pre.nodes[last.id].children # <<>>
    /\ pre.nodes[Neighbour(pre, last.id, "Before")].children # <<>>

\* The last call was add_sibling on a present anchor that has a parent.
SiblingOfChild ==
    /\ CalledOnPresent("add_sibling")
    /\ pre.nodes[last.id].parent # NoId

\* C9: for an anchor with a parent, add_sibling(id, v, Before) puts the new
\* node immediately before id and add_sibling(id, v, After) immediately after
\* id in the parent's child list, the other children keeping their order;
\* next_sibling(new) = id after Before, prev_sibling(new) = id after After,
\* and the new node records the anchor's parent.
C9_AddSiblingAdjacent ==
    SiblingOfChild =>
        LET id == last.id
            sib == last.ret
            par == pre.nodes[id].parent
            old == pre.nodes[par].children
            i == IndexOf(old, id)
        IN  /\ last.ok
            /\ sib \in Present(Self) \ Present(pre)
            /\ nodes[sib].parent = par
            /\ nodes[par].children =
                  (IF last.pos = "Before"
                   THEN SubSeq(old, 1, i - 1) \o <<sib>> \o SubSeq(old, i, Len(old))
                   ELSE SubSeq(old, 1, i) \o <<sib>> \o SubSeq(old, i + 1, Len(old)))
            /\ last.pos = "Before" => next_sibling(Self, sib) = Some(id)
            /\ last.pos = "After" => prev_sibling(Self, sib) = Some(id)

\* add_sibling Before on an anchor standing between two other children.
C9_Witness ==
    /\ SiblingOfChild
    /\ last.pos = "Before"
    /\ LET old == HomeList(pre, last.id)
       IN  1 < IndexOf(old, last.id) /\ IndexOf(old, last.id) < Len(old)

\* The last call was add_sibling on a present anchor that is a root.
SiblingOfRoot ==
    /\ CalledOnPresent("add_sibling")
    /\ pre.nodes[last.id].parent = NoId

\* C10: for an anchor that is a root, add_sibling(id, v, pos) creates a root
\* appended as the last entry of the root list, for Before and for After,
\* wherever id stands in the root list.
C10_AddSiblingOfRootAppends ==
    SiblingOfRoot =>
        /\ last.ok
        /\ last.ret \in Present(Self) \ Present(pre)
        /\ nodes[last.ret].parent = NoId
        /\ roots = Append(pre.roots, last.ret)

\* add_sibling Before on the first of at least three roots.
C10_Witness ==
    /\ SiblingOfRoot
    /\ last.pos = "Before"
    /\ Len(pre.roots) >= 3
    /\ pre.roots[1] = last.id

\* C11: add_root always succeeds and makes the new node the last root;
\* push_child on a present parent makes the new node the last child of that
\* parent; the new node has no children and every entry that was in a list
\* keeps its position.
C11_AppendsLast ==
    /\ last.op = "add_root" =>
          /\ last.ok
          /\ last.ret \in Present(Self) \ Present(pre)
          /\ roots = Append(pre.roots, last.ret)
          /\ nodes[last.ret].children = <<>>
          /\ \A k \in Present(pre) : nodes[k].children = pre.nodes[k].children
    /\ CalledOnPresent("push_child") =>
          /\ last.ok
          /\ last.ret \in Present(Self) \ Present(pre)
          /\ nodes[last.id].children =
                Append(pre.nodes[last.id].children, last.ret)
          /\ nodes[last.ret].children = <<>>
          /\ roots = pre.roots
          /\ \A k \in Present(pre) \ {last.id} :
                nodes[k].children = pre.nodes[k].children

\* push_child on a parent that already had two children, in a forest with
\* two roots.
C11_Witness ==
    /\ CalledOnPresent("push_child")
    /\ Len(pre.nodes[last.id].children) >= 2
    /\ Len(pre.roots) >= 2

AbsentQueries ==
    {"get_node", "get_mut_node", "parent", "next_sibling", "prev_sibling",
     "children", "next_siblings", "prev_siblings"}

\* C12: for an identity that is not in the Forest, get_node and get_mut_node
\* return the not-found result, parent, next_sibling and prev_sibling return
\* none, children, next_siblings and prev_siblings return an empty view, and
\* none of them faults.
C12_AbsentIdQueries ==
    \A op \in AbsentQueries :
        CalledOnAbsent(op) =>
            /\ panic = ""
            /\ last.ret = NoId
            /\ last.view = <<>>
            /\ last.value = NoValue
            /\ op \in {"get_node", "get_mut_node"} => ~last.ok

\* next_siblings was asked about an identity that was issued and is gone,
\* in a forest that still has roots.
C12_Witness ==
    /\ CalledOnAbsent("next_siblings")
    /\ last.id \in Range(issued)
    /\ pre.roots # <<>>

\* C13: for a present id at index i of its sibling list, prev_siblings(id) is
\* the entries below i and next_siblings(id) the entries above i, in list
\* order; prev_sibling(id) is the entry at i - 1 (none when id is first) and
\* next_sibling(id) the entry at i + 1 (none when id is last).
C13_SiblingViews ==
    \A op \in {"prev_siblings", "next_siblings", "prev_sibling", "next_sibling"} :
        CalledOnPresent(op) =>
            LET home == HomeList(pre, last.id)
                i == IndexOf(home, last.id)
            IN  /\ panic = ""
                /\ op = "prev_siblings" => last.view = SubSeq(home, 1, i - 1)
                /\ op = "next_siblings" =>
                      last.view = SubSeq(home, i + 1, Len(home))
                /\ op = "prev_sibling" =>
                      last.ret = (IF i > 1 THEN home[i - 1] ELSE NoId)
                /\ op = "next_sibling" =>
                      last.ret = (IF i < Len(home) THEN home[i + 1] ELSE NoId)

\* next_sibling was asked about a child standing between two other children.
C13_Witness ==
    /\ CalledOnPresent("next_sibling")
    /\ pre.nodes[last.id].parent # NoId
    /\ LET home == HomeList(pre, last.id)
       IN  1 < IndexOf(home, last.id) /\ IndexOf(home, last.id) < Len(home)


\* The last call was one of the operations that change the shape of the
\* tree.
Structural ==
    last.op \in {"add_root", "push_child", "add_sibling", "merge_sibling",
                 "delete_node"}

\* The nodes that were in the tree before the last call and still are.
Kept == Present(Self) \cap Present(pre)

\* The parent that the target of the last call had, NoId for a root and for
\* an absent target.
TargetParent ==
    IF last.id \in Present(pre) THEN pre.nodes[last.id].parent ELSE NoId

\* The nodes whose child list the last call may change: the parent given to
\* push_child, the parent of the anchor of add_sibling and of the node that
\* delete_node removes, and for merge_sibling the node that takes the
\* children and the parent that loses the sibling.
ListOwners ==
    CASE last.op = "push_child" -> {last.id}
      [] last.op = "add_sibling" -> {TargetParent}
      [] last.op = "delete_node" -> {TargetParent}
      [] last.op = "merge_sibling" -> {last.id, TargetParent}
      [] OTHER -> {}

\* The children that the last call, a merge_sibling, moved to another
\* parent.
Reparented ==
    IF MergeFound
    THEN Range(pre.nodes[Neighbour(pre, last.id, last.pos)].children)
    ELSE {}

\* C30: after add_root, push_child, add_sibling, merge_sibling or
\* delete_node every node that remains holds the value it held; it has the
\* parent it had unless it is a child that a merge moved to the merged node;
\* it has the child list it had unless it owns the list that took or lost
\* an entry; and the roots are as they were unless the call made, merged or
\* removed a root.
C30_StructuralFrame ==
    Structural =>
        /\ \A k \in Kept :
              /\ nodes[k].value = pre.nodes[k].value
              /\ \/ nodes[k].parent = pre.nodes[k].parent
                 \/ k \in Reparented /\ nodes[k].parent = last.id
              /\ \/ nodes[k].children = pre.nodes[k].children
                 \/ k \in ListOwners
        /\ \/ roots = pre.roots
           \/ last.op = "add_root"
           \/ /\ last.op \in {"add_sibling", "merge_sibling", "delete_node"}
              /\ last.id \in Present(pre)
              /\ TargetParent = NoId

\* C30 witness: a merge_sibling below a parent moved children to the merged
\* node while a node that is none of them, and owns no list that changed,
\* kept its parent and its value.
C30_Witness ==
    /\ MergeFound
    /\ panic = ""
    /\ Reparented # {}
    /\ TargetParent # NoId
    /\ \E k \in Kept \ (Reparented \cup ListOwners) :
          /\ pre.nodes[k].parent # NoId
          /\ nodes[k] = pre.nodes[k]

-----------------------------------------------------------------------------
\* The property parser (SpecParse)

\* The failure parse_properties returns for a text without a bbox entry.
MissingBoundingBox == Error("Couldn't find bbox in properties!")

\* C14: parse_properties is total: whatever the clauses of the text, short
\* ones included, the call never aborts, and what it returns is a property
\* map or the missing-bounding-box failure.
C14_ParserTotal ==
    /\ pp_pc # "panicked"
    /\ pp_pc = "done" => (pp_result.tag = "Ok" \/ pp_result = MissingBoundingBox)

\* C15: a clause of a numeric key with an unreadable value token adds no
\* entry, and a text that holds such a clause and a well-formed bbox clause
\* is parsed to a map that holds the key of each of its well-formed clauses.
C15_MalformedDropped ==
    /\ (pp_pc = "body" /\ Malformed(pp_pattern)) => pp_dict = pp_before
    /\ (pp_malformed /\ "bbox" \in pp_wellformed) =>
          /\ pp_pc # "panicked"
          /\ pp_wellformed \subseteq DOMAIN pp_dict
          /\ pp_pc = "done" =>
                /\ pp_result.tag = "Ok"
                /\ pp_wellformed \subseteq DOMAIN pp_result.val

\* C16: the call ends in the missing-bounding-box failure exactly when no
\* clause of the text has produced a bbox entry, and a map it returns holds
\* the key bbox.
C16_MissingBBoxExactly ==
    /\ pp_pc = "done" =>
          /\ pp_result = MissingBoundingBox <=> "bbox" \notin pp_produced
          /\ pp_result.tag = "Ok" => "bbox" \in DOMAIN pp_result.val
    /\ pp_pc = "panicked" => "bbox" \in pp_produced

\* The clause is bbox followed by exactly four tokens that read as floats.
FourNumeric(clause) ==
    /\ Len(clause) = 5
    /\ clause[1] = "bbox"
    /\ \A i \in 2 .. 5 : clause[i] \in F32Tokens

\* C17: a pass over a clause bbox L T R B with four numeric tokens ends with
\* the entry bbox holding left = L, top = T, right = R and bottom = B.
C17_BBoxInOrder ==
    FourNumeric(pp_pattern) =>
        /\ pp_pc = "body"
        /\ "bbox" \in DOMAIN pp_dict
        /\ pp_dict["bbox"].kind = "BBox"
        /\ pp_dict["bbox"].rect.min.x = F32Of(pp_pattern[2])
        /\ pp_dict["bbox"].rect.min.y = F32Of(pp_pattern[3])
        /\ pp_dict["bbox"].rect.max.x = F32Of(pp_pattern[4])
        /\ pp_dict["bbox"].rect.max.y = F32Of(pp_pattern[5])

\* C17 witness: a pass has taken a bbox clause of four numeric tokens whose
\* neighbouring coordinates differ, over a dictionary that held another box.
C17_Witness ==
    /\ pp_pc = "body"
    /\ FourNumeric(pp_pattern)
    /\ pp_pattern[2] # pp_pattern[3]
    /\ pp_pattern[3] # pp_pattern[4]
    /\ pp_pattern[4] # pp_pattern[5]
    /\ "bbox" \in DOMAIN pp_before
    /\ pp_before["bbox"] # pp_dict["bbox"]


-----------------------------------------------------------------------------
\* Import and export (SpecImport)

\* html_to_ocr_tree has returned a tree for html_tree.
Imported == im_pc \in {"imported", "exported", "reimported"}

\* The element of html_tree a node value was converted from: the elements of
\* the document have names of their own.
ElementOf(value) ==
    CHOOSE i \in 1 .. Len(html_tree) :
        html_tree[i].name = value.html_element_type

\* The element i of html_tree stands in the tree: some node was converted
\* from it.
InForest(i) ==
    \E id \in DOMAIN internal_ocr_tree.nodes :
        internal_ocr_tree.nodes[id].value.html_element_type = html_tree[i].name

\* The element i of html_tree is one the importer governs and its conversion
\* fails.
ConversionFails(i) ==
    /\ matches(OCR_SELECTOR, html_tree[i])
    /\ html_elt_to_ocr_elt(html_tree, i, im_classes[i]).tag = "Err"

\* The elements of html_tree outside the subtree of every element whose
\* conversion fails, in document order.
Outside ==
    LET Hit(j) == \A i \in 1 .. Len(html_tree) :
                      ConversionFails(i) => ~Within(html_tree, j, i)
    IN  SelectSeq([j \in 1 .. Len(html_tree) |-> j], Hit)

\* html_tree without the subtrees of the elements whose conversion fails.
Pruned ==
    [k \in 1 .. Len(Outside) |->
        [html_tree[Outside[k]] EXCEPT
            !.parent = IF @ = 0 THEN 0 ELSE Position(Outside, @)]]

\* C18: after an import no element that stands in the subtree of an element
\* whose conversion failed, pages included, is in the tree, and the tree is
\* the one the document without those subtrees is imported to.
C18_FailedSubtreeSkipped ==
    Imported =>
        /\ \A i, j \in 1 .. Len(html_tree) :
              (ConversionFails(i) /\ Within(html_tree, j, i)) => ~InForest(j)
        /\ internal_ocr_tree =
              html_to_ocr_tree(Pruned,
                               [k \in 1 .. Len(Outside) |->
                                   im_classes[Outside[k]]]).val

\* The shape of the subtree of a node: its value and the shapes of its
\* children in order, whatever the identities.
RECURSIVE ShapeAt(_, _)
ShapeAt(t, id) ==
    [value |-> t.nodes[id].value,
     below |-> [k \in 1 .. Len(t.nodes[id].children) |->
                   ShapeAt(t, t.nodes[id].children[k])]]

\* The shape of a tree: the shapes of its roots in order.
Shape(t) == [k \in 1 .. Len(t.roots) |-> ShapeAt(t, t.roots[k])]

\* C19: the tree imported from the exported document has the shape of the
\* tree that was exported: as many roots and nodes in the same order, each
\* with the same class, property values and text.
C19_RoundTripShape ==
    im_pc = "reimported" => Shape(round_tree) = Shape(internal_ocr_tree)

\* The tokens of a list of classes that start with "ocr", in the order of the
\* list.
Prefixed(classes) == SelectSeq(classes, starts_with_ocr)

\* C20 as stated: the class of every node is the one named by the first
\* token with the OCR prefix in the class attribute of its element.
C20_FirstPrefixedToken ==
    Imported =>
        \A id \in DOMAIN internal_ocr_tree.nodes :
            LET value == internal_ocr_tree.nodes[id].value
                listed == Prefixed(html_tree[ElementOf(value)].class)
            IN  value.ocr_element_type = from_str(Head(listed)).val

\* C20 amended: the class of every node is the one named by the token with
\* the OCR prefix that the enumeration of the classes of its element yields
\* last, a token of the class attribute; with one such token in the
\* attribute it is that token.
C20_LastEnumeratedToken ==
    Imported =>
        \A id \in DOMAIN internal_ocr_tree.nodes :
            LET value == internal_ocr_tree.nodes[id].value
                elt == ElementOf(value)
                listed == Prefixed(html_tree[elt].class)
                yielded == Prefixed(im_classes[elt])
            IN  /\ yielded # <<>>
                /\ value.ocr_element_type
                      = from_str(yielded[Len(yielded)]).val
                /\ yielded[Len(yielded)] \in Range(listed)
                /\ Len(listed) = 1 =>
                      value.ocr_element_type = from_str(listed[1]).val

\* C20 witness: a node was converted from an element whose class attribute
\* holds two tokens with the OCR prefix, and its class is not that of the
\* first.
C20_Witness ==
    /\ Imported
    /\ \E id \in DOMAIN internal_ocr_tree.nodes :
          LET value == internal_ocr_tree.nodes[id].value
              listed == Prefixed(html_tree[ElementOf(value)].class)
          IN  /\ Len(listed) = 2
              /\ value.ocr_element_type # from_str(listed[1]).val

\* The text nodes in the subtree of the element i that are not blank, found by
\* descending from the element to its child elements in order.
RECURSIVE TextBelow(_, _)
RECURSIVE TextOfEach(_, _)
TextBelow(html, i) ==
    (IF html[i].text \in {"", " "} THEN <<>> ELSE <<html[i].text>>)
    \o TextOfEach(html, elt_children(html, i))

TextOfEach(html, elts) ==
    IF elts = <<>> THEN <<>>
    ELSE TextBelow(html, Head(elts)) \o TextOfEach(html, Tail(elts))

\* The element i of html_tree carries the class of words.
WordMarked(i) == "ocrx_word" \in Range(html_tree[i].class)

\* C21 as stated: the text of a node of class Word is the text that stands
\* directly in its element and is not blank, the text of nested elements left
\* out, and the text of a node of every other class is empty.
C21_DirectTextOnly ==
    Imported =>
        \A id \in DOMAIN internal_ocr_tree.nodes :
            LET value == internal_ocr_tree.nodes[id].value
                own == html_tree[ElementOf(value)].text
            IN  value.ocr_text =
                    IF value.ocr_element_type = "Word" /\ own \notin {"", " "}
                    THEN own ELSE ""

\* C21 amended: the text of a node whose element carries the class of words,
\* so of every node of class Word, is the concatenation in document order of
\* the text in the whole subtree of the element that is not blank, nested
\* elements included; the text of a node whose element does not carry that
\* class is empty.
C21_SubtreeText ==
    Imported =>
        \A id \in DOMAIN internal_ocr_tree.nodes :
            LET value == internal_ocr_tree.nodes[id].value
                elt == ElementOf(value)
            IN  /\ value.ocr_element_type = "Word" => WordMarked(elt)
                /\ value.ocr_text =
                       IF WordMarked(elt)
                       THEN join(TextBelow(html_tree, elt)) ELSE ""

\* C21 witness: a node of class Word holds the text of an element nested in
\* its element.
C21_Witness ==
    /\ Imported
    /\ \E id \in DOMAIN internal_ocr_tree.nodes :
          LET value == internal_ocr_tree.nodes[id].value
              elt == ElementOf(value)
          IN  /\ value.ocr_element_type = "Word"
              /\ value.ocr_text # ""
              /\ \E j \in 1 .. Len(html_tree) :
                    /\ j # elt
                    /\ Within(html_tree, j, elt)
                    /\ html_tree[j].text = value.ocr_text

\* The conversion of the element i of html_tree succeeds.
Converts(i) == html_elt_to_ocr_elt(html_tree, i, im_classes[i]).tag = "Ok"

\* The elements the nodes of a list were converted from.
ElementsOf(ids) ==
    [k \in 1 .. Len(ids) |-> ElementOf(internal_ocr_tree.nodes[ids[k]].value)]

\* The elements of html_tree that carry the class of pages and whose
\* conversion succeeds, in document order.
ConvertedPages ==
    LET Hit(i) == "ocr_page" \in Range(html_tree[i].class) /\ Converts(i)
    IN  SelectSeq([i \in 1 .. Len(html_tree) |-> i], Hit)

\* The elements of html_tree that are children of the element elt, carry a
\* class of OCR_SELECTOR and whose conversion succeeds, in document order.
ConvertedChildren(elt) ==
    LET Hit(j) == /\ html_tree[j].parent = elt
                  /\ Range(html_tree[j].class) \cap OCR_SELECTOR # {}
                  /\ Converts(j)
    IN  SelectSeq([j \in 1 .. Len(html_tree) |-> j], Hit)

C27_OneNodePerElement ==
    Imported =>
        \A id, other \in DOMAIN internal_ocr_tree.nodes :
            internal_ocr_tree.nodes[id].value.html_element_type
                = internal_ocr_tree.nodes[other].value.html_element_type
            => id = other

-----------------------------------------------------------------------------
\* Saving (SpecExport)

\* save_file has been called on ex_tree.
Saved == ex_pc = "saved"

\* The nodes of a tree in the order of a walk over the roots in order and
\* through each subtree depth first.
RECURSIVE PreorderAt(_, _)
RECURSIVE PreorderEach(_, _)
PreorderAt(t, id) == <<id>> \o PreorderEach(t, t.nodes[id].children)

PreorderEach(t, ids) ==
    IF ids = <<>> THEN <<>>
    ELSE PreorderAt(t, Head(ids)) \o PreorderEach(t, Tail(ids))

Preorder(t) == PreorderEach(t, t.roots)

\* The identifier family of a class.
Family(class) ==
    CASE class = "Page" -> "page"
      [] class \in {"CArea", "Separator", "Photo"} -> "block"
      [] class \in {"Line", "Caption"} -> "line"
      [] class = "Par" -> "par"
      [] class = "Word" -> "word"

\* The families of the nodes of ex_tree in the order of the walk.
Families ==
    LET order == Preorder(ex_tree) IN
    [i \in 1 .. Len(order) |->
        Family(ex_tree.nodes[order[i]].value.ocr_element_type)]

\* How many of the first i entries of a list of families are the family.
EmittedOf(families, family, i) ==
    Cardinality({j \in 1 .. i : families[j] = family})

\* C23: the saved document holds one element per node in the order of the
\* walk of the roots and depth first through the subtrees, each below the
\* element of the parent of its node; the k-th node of a family has the
\* sequence number k, counted over the whole document; a page is named
\* page_k and every other node family_p_k with p the number of pages before
\* it in the walk; Block, Separator and Photo are one family, Line and
\* Caption are one.
C23_RunningCounters ==
    Saved =>
        LET order == Preorder(ex_tree)
            families == Families
        IN
        /\ Len(ex_html) = Len(order)
        /\ \A i \in 1 .. Len(order) :
              LET node == ex_tree.nodes[order[i]]
                  k == EmittedOf(families, families[i], i)
              IN  /\ ex_html[i].parent =
                        IF node.parent = NoId THEN 0
                        ELSE IndexOf(order, node.parent)
                  /\ ex_html[i].id =
                        Some(IF families[i] = "page" THEN <<"page", k>>
                             ELSE <<families[i],
                                    EmittedOf(families, "page", i - 1), k>>)

\* C23 witness: a line is saved as line_0_1 before the first page and a
\* caption below that page as line_1_2.
C23_Witness ==
    /\ Saved
    /\ \E i, j \in 1 .. Len(ex_html) :
          /\ ex_html[i].class = <<"ocr_line">>
          /\ ex_html[i].id = Some(<<"line", 0, 1>>)
          /\ ex_html[j].class = <<"ocr_caption">>
          /\ ex_html[j].id = Some(<<"line", 1, 2>>)
          /\ ex_html[j].parent # 0
          /\ ex_html[ex_html[j].parent].class = <<"ocr_page">>

\* What a document shows of its elements apart from the title attributes:
\* the nesting, the names, the classes, the identifiers and the text.
Emitted(html) ==
    [i \in 1 .. Len(html) |->
        [parent |-> html[i].parent, name |-> html[i].name,
         class |-> html[i].class, id |-> html[i].id, text |-> html[i].text]]

C26_IdentifiersDistinct ==
    Saved =>
        \A i, j \in 1 .. Len(ex_html) :
            ex_html[i].id = ex_html[j].id => i = j

\* C26 witness: a page below a page was saved, with a line below the inner
\* page.
C26_Witness ==
    /\ Saved
    /\ \E i, j, k \in 1 .. Len(ex_html) :
          /\ ex_html[i].class = <<"ocr_page">>
          /\ ex_html[j].class = <<"ocr_page">>
          /\ ex_html[j].parent = i
          /\ ex_html[k].class = <<"ocr_line">>
          /\ ex_html[k].parent = j

-----------------------------------------------------------------------------
\* A title written and read back (SpecRound)

\* C25: parsing the title that is written for the properties of a node gives
\* back every property, equal and under the same key, whatever its kind and
\* its numbers, fractions and negative box coordinates included.
C25_PropertyRoundTrip ==
    rt_pc \in {"parsed", "panicked"} => rt_back = Ok(rt_props)

-----------------------------------------------------------------------------
\* The editor (SpecEditor)

\* The nodes of the tree of the editor.
EdNodes == editor.internal_ocr_tree.nodes

\* The node holds a bounding box under the key bbox.
Boxed(id) ==
    /\ "bbox" \in DOMAIN EdNodes[id].value.ocr_properties
    /\ EdNodes[id].value.ocr_properties["bbox"].kind = "BBox"

\* The node is one that make_new_child made: a span that is a word without
\* text, below a parent.
MadeChild(id) ==
    /\ EdNodes[id].parent # NoId
    /\ EdNodes[id].value.html_element_type = "span"
    /\ EdNodes[id].value.ocr_element_type = "Word"
    /\ EdNodes[id].value.ocr_text = ""

\* C28: every node of the tree of the editor holds a bounding box under the
\* key bbox, after the import and after every cycle, and neither
\* make_new_child nor draw_bbox has met a node without one.
C28_EveryNodeBoxed ==
    /\ \A id \in DOMAIN EdNodes : Boxed(id)
    /\ ed_panic \notin {"node doesn't have a bbox", "Node doesn't have a bbox"}

\* C28 witness: a file was opened, a child was made below a node and the
\* left edge of the box of a node was moved to 0, and every box is drawn.
C28_Witness ==
    /\ ed_panic = ""
    /\ editor.image_path # None
    /\ editor.selected_id # None
    /\ \E id \in DOMAIN EdNodes : MadeChild(id)
    /\ \E id \in DOMAIN EdNodes :
          /\ Boxed(id)
          /\ EdNodes[id].value.ocr_properties["bbox"].rect.min.x = 0

\* C29: no cycle ends in make_new_sibling or make_new_child not finding the
\* node that a request names, and after a cycle no request is pending.
C29_RequestsNameNodes ==
    /\ ed_panic \notin {"id doesn't exist in tree",
                        "sibling id doesn't exist in tree"}
    /\ ed_panic = "" =>
          /\ editor.merge_id = None
          /\ editor.sibling_id = None
          /\ editor.parent_id = None

====
